---- MODULE Spec2Model ----
(***************************************************************************)
(* A model of the kernel's deadlock-avoidance layer                        *)
(* (os/src/sync/deadlock_avoidance.rs): the per-process table              *)
(* DEADLOCK_DETECT_ENABLED and the banker's algorithm behind it; of the    *)
(* stride counter and the priority (os/src/task/stride.rs, priority.rs);   *)
(* of sys_set_priority and sys_waitpid (os/src/syscall/process.rs); and of *)
(* the task manager's status machine (os/src/task/mod.rs, processor.rs).   *)
(*                                                                         *)
(* A BTreeMap is a function whose DOMAIN is the set of keys present.       *)
(* usize is modelled as the integers modulo WordMod; an arithmetic         *)
(* overflow panics when the build has overflow checks (overflow_checks)    *)
(* and wraps when it has not.  A panic halts the kernel (halted).          *)
(***************************************************************************)
EXTENDS Integers, FiniteSets, Sequences, TLC

VARIABLES
    algos,            \* DEADLOCK_DETECT_ENABLED: pid -> BankersAlgorithm
    curpid,           \* pid of the process of current_task()
    overflow_checks,  \* build profile: TRUE = overflow panics, FALSE = it wraps
    halted,           \* the kernel has panicked
    last,             \* the last call and what it returned
    sys,              \* the last system call, its argument and its result
    stride_ty,        \* the instance T of StrideImpl<T> under test
    stride_tasks,     \* test_stride's tasks: id -> priority and strides
    task_priority,    \* the current task's Priority (PriorityImpl<u32>.0)
    task_stride,      \* the current task's Stride (StrideImpl<usize>.stride)
    children,         \* the current process's children, in list order
    exit_code_out,    \* the i32 at exit_code_ptr, and whether the last
                      \* sys_waitpid wrote it
    task_status,      \* TaskManagerInner.tasks[i].task_status
    current_task,     \* TaskManagerInner.current_task
    task_pc,          \* where the kernel is in the task manager's code
    time,             \* the time register (riscv::register::time)
    user_timer_us,    \* TaskManagerInner.user_timer_us, Processor.user_timer_us
    kernel_timer_us,  \* TaskManagerInner.kernel_timer_us, Processor.kernel_timer_us
    first_run_time_us, \* task -> infos.running_times.first_run_time_us
    last_credit,      \* history: what the step just taken added to a sum of
                      \* infos.running_times, and at which reading of the clock
    task_cx,          \* task -> where its saved TaskContext resumes
    panic_msg,        \* the message of the panic that halted the kernel
    processor_current, \* Processor.current, NoTask for None
    ready_queue,      \* the ready queue behind add_task and fetch_task
    console,          \* the warnings logged so far
    guards,           \* the UPSafeCells that are borrowed
    guard_path,       \* what is left of the path that is being run
    guard_flow,       \* the control flow that runs it
    guard_conts,      \* the paths left behind by control flows switched out
    guard_kernel,     \* which of the two schedulers the kernel is built with
    trap_cx,          \* pid -> the saved TrapContext (x[10] and x[17]) of the process
    mm_call,          \* the arguments of the last sys_mmap or sys_munmap
    mappings,         \* the pages mapped by mmap
    mutex_locked,     \* MutexBlocking: the mutex is held
    mutex_wait_queue, \* MutexBlocking: the tasks blocked on the mutex, oldest first
    mutex_blocked,    \* history: the tasks in the order they blocked on the mutex
    mutex_woken,      \* history: the tasks in the order releases woke them
    checker_counter,  \* SyscallCheckerState.counter: syscall id -> calls begun and not ended
    in_flight,        \* the syscall whose checker lives on each task's kernel stack
    syscall_times,    \* infos.syscall_times of each task
    times_at_entry,   \* history: syscall_times of a task when its last syscall began
    task_info,        \* the TaskInfo last written by sys_task_info
    dispatch_since,   \* history: per dispatched task, the tasks Ready at its last dispatch and those dispatched since
    cmp_args,         \* the two strides that Ord::cmp is called with next
    cmp_out,          \* what the calls of Ord::cmp returned so far
    dir_entries,      \* easy-fs: the DirEntry array of the directory, in slot order
    links,            \* easy-fs: inode id -> the link count of its DiskInode
    fs_last,          \* easy-fs: the last call on the directory and what it returned
    fs_before         \* history: the directory and the link counts before the last call

\* the state of the deadlock-avoidance layer
bankerVars == <<algos, curpid, overflow_checks, last>>

\* the state of test_stride
strideVars == <<stride_ty, stride_tasks>>

\* the scheduling parameters of the current task
prioVars == <<task_priority, task_stride>>

\* the current process's children and the user memory sys_waitpid writes
waitVars == <<children, exit_code_out>>

\* the task manager
taskVars == <<task_status, current_task, task_pc>>

\* the clock, the accounting timers and the saved contexts
timerVars == <<time, user_timer_us, kernel_timer_us, first_run_time_us, last_credit, task_cx, panic_msg>>

\* the processor, the ready queue and the log
procVars == <<processor_current, ready_queue, console>>

\* the exclusive-access guards along the dispatch paths
guardVars == <<guards, guard_path, guard_flow, guard_conts, guard_kernel>>

\* the saved trap contexts of the current process and its children
forkVars == <<trap_cx>>

\* the arguments of sys_mmap and the mappings of the address space
mmVars == <<mm_call, mappings>>

\* the blocking mutex, its wait queue and the history of its waiters
mutexVars == <<mutex_locked, mutex_wait_queue, mutex_blocked, mutex_woken>>

\* the syscall checker, the counts of syscalls and the last TaskInfo
syscallVars == <<checker_counter, in_flight, syscall_times, times_at_entry, task_info>>

\* the history of the dispatches of the task manager
rrVars == <<dispatch_since>>

\* the state of a comparison of two strides
cmpVars == <<cmp_args, cmp_out>>

\* the state of the easy-fs directory
fsVars == <<dir_entries, links, fs_last, fs_before>>

\* the state outside the deadlock-avoidance layer
kernelVars == <<sys, strideVars, prioVars, waitVars, taskVars, timerVars, procVars, guardVars, forkVars, mmVars, mutexVars, syscallVars, rrVars, cmpVars, fsVars>>

\* what the operations of each part leave alone
outsideStride == <<bankerVars, sys, prioVars, waitVars, taskVars, timerVars, procVars, guardVars, forkVars, mmVars, mutexVars, syscallVars, rrVars, cmpVars, fsVars>>
outsidePrio == <<bankerVars, strideVars, waitVars, taskVars, timerVars, procVars, guardVars, forkVars, mmVars, mutexVars, syscallVars, rrVars, cmpVars, fsVars>>
outsideWait == <<bankerVars, strideVars, prioVars, taskVars, timerVars, processor_current, console, guardVars, mmVars, mutexVars, syscallVars, rrVars, cmpVars, fsVars>>
outsideTask == <<bankerVars, sys, strideVars, prioVars, waitVars, procVars, guardVars, forkVars, mmVars, mutexVars, syscallVars, cmpVars, fsVars>>
outsideProc == <<bankerVars, sys, strideVars, prioVars, waitVars, guardVars, forkVars, mmVars, mutexVars, syscallVars, rrVars, cmpVars, fsVars>>
outsideGuard == <<bankerVars, sys, strideVars, prioVars, waitVars, taskVars, time, user_timer_us, kernel_timer_us, first_run_time_us, last_credit, task_cx, procVars, forkVars, mmVars, mutexVars, syscallVars, rrVars, cmpVars, fsVars>>
outsideMm == <<bankerVars, strideVars, prioVars, waitVars, taskVars, time, user_timer_us, kernel_timer_us, first_run_time_us, last_credit, task_cx, procVars, guardVars, forkVars, mutexVars, syscallVars, rrVars, cmpVars, fsVars>>
outsideMutex == <<bankerVars, strideVars, prioVars, waitVars, current_task, task_pc, timerVars, console, guardVars, forkVars, mmVars, syscallVars, rrVars, cmpVars, fsVars>>
outsideSyscall == <<bankerVars, strideVars, prioVars, waitVars, procVars, guardVars, forkVars, mmVars, mutexVars, rrVars, cmpVars, fsVars>>
outsideCmp == <<bankerVars, sys, strideVars, prioVars, waitVars, taskVars, timerVars, procVars, guardVars, forkVars, mmVars, mutexVars, syscallVars, rrVars, fsVars>>
outsideFs == <<bankerVars, sys, strideVars, prioVars, waitVars, taskVars, timerVars, procVars, guardVars, forkVars, mmVars, mutexVars, syscallVars, rrVars, cmpVars>>

vars == <<algos, curpid, overflow_checks, halted, last, kernelVars>>

(* ------------------------------ bounds -------------------------------- *)
WordBits == 2
WordMod == 2 ^ WordBits          \* stands for 2^64, the range of usize
MaxUnits == 1                    \* cap on available[kind], on need and on amounts
CheckMax == 1                    \* counts drawn for the security_check inputs

StrideBits == 8                  \* width that usize and isize are scaled to
                                 \* for the stride counter and the priority
PriorityBits == 5                \* width that u32 (PriorityInner) is scaled to
MaxStrideTasks == 3              \* test_stride: at most so many tasks,
MaxPriority == 10                \* with priorities 2..MaxPriority,
RealStrideLimit == 600           \* run until a reference counter passes this

MaxChildren == 3                 \* children a process has at one time
MaxApps == 3                     \* get_num_app() is at most this

TimeBits == 3                    \* width that usize is scaled to for the clock
MICRO_PER_SEC == 3               \* timer.rs MICRO_PER_SEC, scaled with it
CLOCK_FREQ == 2                  \* config.rs CLOCK_FREQ, scaled with it
BootTime == 1                    \* the time register when the kernel is up
MaxWarn == 2                     \* warnings logged before the log is full
MaxConts == 2                    \* control flows switched out at one time
MaxCalls == 3                    \* cap on the syscalls counted in all tasks
MaxBlocks == 3                   \* cap on the times tasks block on the mutex
MaxProtExtra == 0                \* protection bits tried beyond PROT_MASK
MaxReads == 4                    \* readings of the clock in one handler

Tasks == {1, 2}
Kinds == {1, 2}
CheckTasks == {1, 2, 3}
Pids == {1, 2}
ProcTasks == {1}
ProcKinds == {1}

(* ------------------------------ helpers ------------------------------- *)
EmptyMap == [x \in {} |-> 0]

Put(m, k, v) == [x \in (DOMAIN m) \cup {k} |-> IF x = k THEN v ELSE m[x]]

Remove(m, k) == [x \in (DOMAIN m) \ {k} |-> m[x]]

MinOf(S) == CHOOSE x \in S : \A y \in S : x <= y

\* TaskResourcesState::default()
DefaultState == [allocation |-> 0, need |-> 0]

\* the state of the process that is running; Spec keeps it enabled
Cur == algos[curpid]

\* BankersAlgorithm::default()
DefaultAlgorithm == [available |-> EmptyMap, task_state |-> EmptyMap]

\* task_state.entry(task).or_default().entry(resource).or_default()
EntryOrDefault(ts, task, resource) ==
    LET inner == IF task \in DOMAIN ts THEN ts[task] ELSE EmptyMap
        st == IF resource \in DOMAIN inner THEN inner[resource] ELSE DefaultState
    IN  Put(ts, task, Put(inner, resource, st))

\* a call that panicked never returned: only its name is recorded
Panicked(op) == [op |-> op, task |-> 0, res |-> 0, n |-> 0, ret |-> "panic"]

NoCall == [op |-> "none", task |-> 0, res |-> 0, n |-> 0, ret |-> "unit"]

Called(op, task, res, n, ret) ==
    [op |-> op, task |-> task, res |-> res, n |-> n, ret |-> ret]

(* ----------------------- BankersAlgorithm methods --------------------- *)
\* Each method returns the algorithm state it leaves behind and whether it
\* panicked; a panic leaves the writes made before it.

BA_add_resource(a, resource, n) ==
    LET old == IF resource \in DOMAIN a.available THEN a.available[resource] ELSE 0
        sum == old + n
    IN  IF sum >= WordMod /\ overflow_checks
        THEN [alg |-> [a EXCEPT !.available = Put(@, resource, old)], panic |-> TRUE]
        ELSE [alg |-> [a EXCEPT !.available = Put(@, resource, sum % WordMod)],
              panic |-> FALSE]

\* a record that creates the entry but leaves the declared need alone
BA_record_keeps_need(a, task, resource, n) ==
    [alg |-> [a EXCEPT !.task_state = EntryOrDefault(a.task_state, task, resource)],
     panic |-> FALSE]

BA_record(a, task, resource, n) ==
    LET ts == EntryOrDefault(a.task_state, task, resource)
        sum == ts[task][resource].need + n
    IN  IF sum >= WordMod /\ overflow_checks
        THEN [alg |-> [a EXCEPT !.task_state = ts], panic |-> TRUE]
        ELSE [alg |-> [a EXCEPT !.task_state =
                          [ts EXCEPT ![task][resource].need = sum % WordMod]],
              panic |-> FALSE]

\* res_state.iter().all(|(res, state)| state.need <= work[res]): kinds are
\* visited in key order and the scan stops at the first kind that fails;
\* work[res] panics when the kind is not a key of work.
TaskFits(work, rs) ==
    LET bad == {k \in DOMAIN rs : k \notin DOMAIN work \/ rs[k].need > work[k]}
    IN  IF bad = {} THEN "yes"
        ELSE IF MinOf(bad) \notin DOMAIN work THEN "panic" ELSE "no"

\* Work[j] = Work[j] + Allocation[i,j] for every kind of the found task
AddAllocation(work, rs) ==
    [k \in DOMAIN work |->
        IF k \in DOMAIN rs THEN (work[k] + rs[k].allocation) % WordMod ELSE work[k]]

AddOverflows(work, rs) ==
    \E k \in DOMAIN rs : k \in DOMAIN work /\ work[k] + rs[k].allocation >= WordMod

\* scans after which a run of the loop is given up as not returning
MaxScans == Cardinality(CheckTasks) + 3

\* a loop that leaves the found task unfinished
MarkFinished_forgets(finish, t) == finish

\* *finish.get_mut(task).unwrap() = true
MarkFinished(finish, t) == [finish EXCEPT ![t] = TRUE]

\* the loop of security_check from its scans-th scan on: a scan is one
\* evaluation of task_state.iter().find(..); the result is what the loop
\* returns, how many scans it took and the finish vector it ended with
RECURSIVE SecurityScan(_, _, _, _)
SecurityScan(ts, work, finish, scans) ==
    LET cand == {t \in DOMAIN ts : ~finish[t] /\ TaskFits(work, ts[t]) # "no"}
        end(ret) == [ret |-> ret, scans |-> scans, finish |-> finish]
    IN  IF scans > MaxScans THEN end("running")
        ELSE IF cand = {}
        THEN IF \A t \in DOMAIN finish : finish[t] THEN end("true") ELSE end("false")
        ELSE LET t == MinOf(cand)
             IN  IF TaskFits(work, ts[t]) = "panic" THEN end("panic")
                 ELSE IF AddOverflows(work, ts[t]) /\ overflow_checks THEN end("panic")
                 ELSE SecurityScan(ts, AddAllocation(work, ts[t]),
                                   MarkFinished(finish, t), scans + 1)

SecurityLoop(ts, work, finish) == SecurityScan(ts, work, finish, 1).ret

\* a check that visits every task once, in key order, and never starts over
RECURSIVE SinglePass(_, _, _)
SinglePass(ts, work, todo) ==
    IF todo = {} THEN "true"
    ELSE LET t == MinOf(todo)
         IN  IF TaskFits(work, ts[t]) = "yes"
             THEN SinglePass(ts, AddAllocation(work, ts[t]), todo \ {t})
             ELSE "false"

security_check_single_pass(a) ==
    SinglePass(a.task_state, a.available, DOMAIN a.task_state)

\* a check that reports every state safe
security_check_always_safe(a) == "true"

\* security_check with the number of scans it took
security_check_run(a) ==
    SecurityScan(a.task_state, a.available,
                 [t \in DOMAIN a.task_state |-> FALSE], 1)

security_check(a) ==
    SecurityLoop(a.task_state, a.available, [t \in DOMAIN a.task_state |-> FALSE])

BA_request(a, task, resource, n) ==
    LET rec == BA_record(a, task, resource, n)
        safe == security_check(rec.alg)
    IN  IF rec.panic \/ safe = "panic"
        THEN [alg |-> rec.alg, panic |-> TRUE, ret |-> "panic"]
        ELSE IF safe = "false"
        THEN [alg |-> rec.alg, panic |-> FALSE, ret |-> "Deadlock"]
        ELSE [alg |-> rec.alg, panic |-> FALSE, ret |-> "Success"]

\* an acquire without assert!(task.need >= n)
BA_acquire_unchecked_need(a, task, resource, n) ==
    IF \/ resource \notin DOMAIN a.available
       \/ task \notin DOMAIN a.task_state
       \/ resource \notin DOMAIN a.task_state[task]
    THEN [alg |-> a, panic |-> TRUE]
    ELSE LET st == a.task_state[task][resource]
             avail == a.available[resource]
         IN  IF avail < n
             THEN [alg |-> a, panic |-> TRUE]
             ELSE [alg |-> [a EXCEPT
                               !.available[resource] = avail - n,
                               !.task_state[task][resource] =
                                   [allocation |-> (st.allocation + n) % WordMod,
                                    need |-> (st.need - n) % WordMod]],
                   panic |-> FALSE]

\* an acquire that passes over a pair without an entry
BA_acquire_ignores_missing(a, task, resource, n) ==
    IF \/ resource \notin DOMAIN a.available
       \/ task \notin DOMAIN a.task_state
       \/ resource \notin DOMAIN a.task_state[task]
    THEN [alg |-> a, panic |-> FALSE]
    ELSE BA_acquire_unchecked_need(a, task, resource, n)

BA_acquire(a, task, resource, n) ==
    IF \/ resource \notin DOMAIN a.available
       \/ task \notin DOMAIN a.task_state
       \/ resource \notin DOMAIN a.task_state[task]
    THEN [alg |-> a, panic |-> TRUE]
    ELSE LET st == a.task_state[task][resource]
             avail == a.available[resource]
             sum == st.allocation + n
         IN  IF avail < n \/ st.need < n
             THEN [alg |-> a, panic |-> TRUE]
             ELSE IF sum >= WordMod /\ overflow_checks
             THEN [alg |-> [a EXCEPT !.available[resource] = avail - n],
                   panic |-> TRUE]
             ELSE [alg |-> [a EXCEPT
                               !.available[resource] = avail - n,
                               !.task_state[task][resource] =
                                   [allocation |-> sum % WordMod, need |-> st.need - n]],
                   panic |-> FALSE]

BA_release(a, task, resource, n) ==
    IF \/ resource \notin DOMAIN a.available
       \/ task \notin DOMAIN a.task_state
       \/ resource \notin DOMAIN a.task_state[task]
    THEN [alg |-> a, panic |-> TRUE]
    ELSE LET st == a.task_state[task][resource]
             sum == a.available[resource] + n
         IN  IF sum >= WordMod /\ overflow_checks
             THEN [alg |-> a, panic |-> TRUE]
             ELSE IF st.allocation < n /\ overflow_checks
             THEN [alg |-> [a EXCEPT !.available[resource] = sum % WordMod],
                   panic |-> TRUE]
             ELSE [alg |-> [a EXCEPT
                               !.available[resource] = sum % WordMod,
                               !.task_state[task][resource].allocation =
                                   (st.allocation - n) % WordMod],
                   panic |-> FALSE]

(* --------------------------- module functions ------------------------- *)
\* a lookup that always finds the first process
getpid_first == MinOf(Pids)

\* current_task().unwrap().process.upgrade().unwrap().getpid()
getpid == curpid

AvailOf(a, resource) ==
    IF resource \in DOMAIN a.available THEN a.available[resource] ELSE 0

NeedOf(a, task, resource) ==
    IF task \in DOMAIN a.task_state /\ resource \in DOMAIN a.task_state[task]
    THEN a.task_state[task][resource].need ELSE 0

AllocOf(a, task, resource) ==
    IF task \in DOMAIN a.task_state /\ resource \in DOMAIN a.task_state[task]
    THEN a.task_state[task][resource].allocation ELSE 0

RECURSIVE SumAlloc(_, _, _)
SumAlloc(a, T, resource) ==
    IF T = {} THEN 0
    ELSE LET t == MinOf(T)
         IN  AllocOf(a, t, resource) + SumAlloc(a, T \ {t}, resource)

\* available[resource] plus the allocation of every task for it
Total(a, resource) ==
    AvailOf(a, resource) + SumAlloc(a, DOMAIN a.task_state, resource)

\* the common shape of add_resource / acquire / release: look the current
\* process up and, when detection is enabled for it, run the method
Apply(op, task, resource, n, out) ==
    /\ ~halted
    /\ IF getpid \in DOMAIN algos
       THEN /\ algos' = [algos EXCEPT ![getpid] = out.alg]
            /\ halted' = out.panic
            /\ last' = IF out.panic THEN Panicked(op)
                       ELSE Called(op, task, resource, n, "unit")
       ELSE /\ UNCHANGED <<algos, halted>>
            /\ last' = Called(op, task, resource, n, "unit")
    /\ UNCHANGED <<curpid, overflow_checks, kernelVars>>

enable ==
    /\ ~halted
    /\ algos' = Put(algos, getpid, DefaultAlgorithm)
    /\ halted' = (getpid \in DOMAIN algos)
    /\ last' = IF getpid \in DOMAIN algos THEN Panicked("enable")
               ELSE Called("enable", 0, 0, 0, "unit")
    /\ UNCHANGED <<curpid, overflow_checks, kernelVars>>

\* a disable that removes the state of the calling process, whatever pid is
disable_current(pid) ==
    /\ ~halted
    /\ algos' = Remove(algos, getpid)
    /\ last' = Called("disable", 0, 0, 0, "unit")
    /\ UNCHANGED <<curpid, overflow_checks, halted, kernelVars>>

disable(pid) ==
    /\ ~halted
    /\ algos' = Remove(algos, pid)
    /\ last' = Called("disable", 0, 0, 0, "unit")
    /\ UNCHANGED <<curpid, overflow_checks, halted, kernelVars>>

add_resource(resource, n) ==
    /\ getpid \in DOMAIN algos => Total(algos[getpid], resource) + n <= MaxUnits
    /\ Apply("add_resource", 0, resource, n,
             IF getpid \in DOMAIN algos
             THEN BA_add_resource(algos[getpid], resource, n)
             ELSE [alg |-> DefaultAlgorithm, panic |-> FALSE])

acquire(task, resource, n) ==
    /\ ~halted
    /\ Apply("acquire", task, resource, n,
             IF getpid \in DOMAIN algos
             THEN BA_acquire(algos[getpid], task, resource, n)
             ELSE [alg |-> DefaultAlgorithm, panic |-> FALSE])

release(task, resource, n) ==
    /\ getpid \in DOMAIN algos => AvailOf(algos[getpid], resource) + n <= MaxUnits
    /\ Apply("release", task, resource, n,
             IF getpid \in DOMAIN algos
             THEN BA_release(algos[getpid], task, resource, n)
             ELSE [alg |-> DefaultAlgorithm, panic |-> FALSE])

request(task, resource, n) ==
    /\ ~halted
    /\ getpid \in DOMAIN algos => NeedOf(algos[getpid], task, resource) + n <= MaxUnits
    /\ IF getpid \in DOMAIN algos
       THEN LET out == BA_request(algos[getpid], task, resource, n)
            IN  /\ algos' = [algos EXCEPT ![getpid] = out.alg]
                /\ halted' = out.panic
                /\ last' = IF out.panic THEN Panicked("request")
                           ELSE Called("request", task, resource, n, out.ret)
       ELSE /\ UNCHANGED <<algos, halted>>
            /\ last' = Called("request", task, resource, n, "None")
    /\ UNCHANGED <<curpid, overflow_checks, kernelVars>>

\* the scheduler runs a task of another process
switch_process(pid) ==
    /\ ~halted
    /\ pid # curpid
    /\ curpid' = pid
    /\ last' = Called("switch_process", 0, 0, 0, "unit")
    /\ UNCHANGED <<algos, overflow_checks, halted, kernelVars>>

(* ------------------------------ priority ------------------------------ *)
\* isize and u32 (PriorityInner), scaled
IsizeMax == 2 ^ (StrideBits - 1) - 1
IsizeMin == 0 - 2 ^ (StrideBits - 1)
PriorityInnerMax == 2 ^ PriorityBits - 1

\* PriorityImpl::DEFAULT
DEFAULT == 16

\* <PriorityImpl<T> as Default>::default, T = u32
PriorityDefault == DEFAULT

\* a try_from whose accepted range starts at 1
PriorityTryFrom_from_one(value) ==
    IF value >= 1 /\ value <= IsizeMax
    THEN IF value <= PriorityInnerMax
         THEN [res |-> "Ok", priority |-> value]
         ELSE [res |-> "panic", priority |-> 0]
    ELSE [res |-> "Err", priority |-> 0]

\* <PriorityImpl<T> as TryFrom<isize>>::try_from, T = u32: a value in
\* 2..=isize::MAX is converted with T::try_from(value).unwrap(), which
\* panics when the value does not fit u32
PriorityTryFrom(value) ==
    IF value >= 2 /\ value <= IsizeMax
    THEN IF value <= PriorityInnerMax
         THEN [res |-> "Ok", priority |-> value]
         ELSE [res |-> "panic", priority |-> 0]
    ELSE [res |-> "Err", priority |-> 0]

\* StrideImpl::default(), the counter of a new task
StrideNew == 0

(* --------------------------- specifications --------------------------- *)
\* no system call has returned yet
NoSyscall == [op |-> "none", arg |-> 0, ret |-> 0]

\* test_stride is not running
StrideIdle ==
    /\ stride_ty = "u8"
    /\ stride_tasks = EmptyMap

\* a task that has not called sys_set_priority and has not been scheduled
PrioIdle ==
    /\ task_priority = PriorityDefault
    /\ task_stride = StrideNew

\* a process without children; nothing was written to user memory
WaitIdle ==
    /\ children = <<>>
    /\ exit_code_out = [value |-> 0, written |-> FALSE]

\* TaskControlBlock::new: a loaded application is Ready
TaskControlBlock_new == "Ready"

\* TASK_MANAGER as constructed, before run_first_task
TaskIdle ==
    /\ task_status = [i \in 0..(MaxApps - 1) |-> TaskControlBlock_new]
    /\ current_task = 0
    /\ task_pc = "boot"

\* TaskContext::goto_restore: a task that never ran resumes at the return
\* to user mode
TaskContext_goto_restore == "restore"

\* the step added nothing to a sum
NoCredit == [task |-> 0 - 1, which |-> "none", us |-> 0, at |-> 0]

\* the clock and the timers before the first dispatch
TimerIdle ==
    /\ time = BootTime
    /\ user_timer_us = 0
    /\ kernel_timer_us = 0
    /\ first_run_time_us = [i \in 0..(MaxApps - 1) |-> 0]
    /\ last_credit = NoCredit
    /\ task_cx = [i \in 0..(MaxApps - 1) |-> TaskContext_goto_restore]
    /\ panic_msg = ""

\* Processor::new, an empty ready queue and an empty log
ProcIdle ==
    /\ processor_current = 0 - 1
    /\ ready_queue = <<>>
    /\ console = 0

\* no cell is borrowed and no dispatch path is being run
GuardIdle ==
    /\ guards = {}
    /\ guard_path = <<>>
    /\ guard_flow = "boot"
    /\ guard_conts = <<>>
    /\ guard_kernel = "TaskManager"

\* SYSCALL_FORK
SYSCALL_FORK == 220

\* the current process has trapped with nothing of interest in a0
ForkIdle ==
    trap_cx = (0 :> [x10 |-> 0, x17 |-> SYSCALL_FORK])

\* Option::None for an inode
NoInode == 0 - 1

\* no call was made on the directory
NoFsCall == [op |-> "none", old |-> "", new |-> "", ret |-> NoInode]

\* an empty directory, no files and no call yet
FsIdle ==
    /\ dir_entries = <<>>
    /\ links = <<>>
    /\ fs_last = NoFsCall
    /\ fs_before = [entries |-> <<>>, links |-> <<>>]

\* no comparison of strides is under way
CmpIdle ==
    /\ cmp_args = <<0, 0>>
    /\ cmp_out = <<>>

\* no sys_mmap was called and nothing is mapped
MmIdle ==
    /\ mm_call = [addr |-> 0, len |-> 0, prot |-> 0]
    /\ mappings = {}

\* a free mutex nobody waits for
MutexIdle ==
    /\ mutex_locked = FALSE
    /\ mutex_wait_queue = <<>>
    /\ mutex_blocked = <<>>
    /\ mutex_woken = <<>>

\* no syscall in flight: the task has no SyscallChecker
NotInSyscall == 0 - 1

\* the TaskInfo before any sys_task_info
NoTaskInfo ==
    [task |-> 0 - 1, status |-> "UnInit", syscall_times |-> EmptyMap,
     elapsed |-> 0]

\* no syscall was made
SyscallIdle ==
    /\ checker_counter = EmptyMap
    /\ in_flight = [i \in 0..(MaxApps - 1) |-> NotInSyscall]
    /\ syscall_times = [i \in 0..(MaxApps - 1) |-> EmptyMap]
    /\ times_at_entry = [i \in 0..(MaxApps - 1) |-> EmptyMap]
    /\ task_info = NoTaskInfo

\* no task was dispatched
RRIdle == dispatch_since = EmptyMap

\* the rest of the kernel while the deadlock-avoidance layer is exercised
KernelIdle ==
    /\ sys = NoSyscall
    /\ StrideIdle
    /\ PrioIdle
    /\ WaitIdle
    /\ TaskIdle
    /\ FsIdle
    /\ CmpIdle
    /\ RRIdle
    /\ SyscallIdle
    /\ MutexIdle
    /\ MmIdle
    /\ ForkIdle
    /\ GuardIdle
    /\ ProcIdle
    /\ TimerIdle

\* the deadlock-avoidance layer while the rest of the kernel is exercised
BankerIdle ==
    /\ algos = EmptyMap
    /\ curpid = MinOf(Pids)
    /\ overflow_checks = TRUE
    /\ last = NoCall

\* One process with detection enabled, driving the banker's algorithm.
Init ==
    /\ algos = Put(EmptyMap, 1, DefaultAlgorithm)
    /\ curpid = 1
    /\ overflow_checks \in BOOLEAN
    /\ halted = FALSE
    /\ last = NoCall
    /\ KernelIdle

Next ==
    \/ \E k \in Kinds, n \in 0..MaxUnits : add_resource(k, n)
    \/ \E t \in Tasks, k \in Kinds, n \in 1..MaxUnits : request(t, k, n)
    \/ \E t \in Tasks, k \in Kinds, n \in 1..MaxUnits : acquire(t, k, n)
    \/ \E t \in Tasks, k \in Kinds, n \in 1..MaxUnits : release(t, k, n)

Spec == Init /\ [][Next]_vars

\* security_check applied to one banker's state drawn from bounded sets:
\* every kind has a count in available, a task is absent or has an entry
\* for a non-empty set of kinds, and no total exceeds the range of usize.
CheckCounts == 0..CheckMax

CheckEntries ==
    UNION {[K -> [allocation : CheckCounts, need : CheckCounts]] :
              K \in (SUBSET Kinds) \ {{}}}

InitCheck ==
    /\ \E av \in [Kinds -> CheckCounts], T \in SUBSET CheckTasks :
          \E ts \in [T -> CheckEntries] :
              LET a == [available |-> av, task_state |-> ts]
              IN  /\ \A k \in Kinds : Total(a, k) < WordMod
                  /\ algos = Put(EmptyMap, 1, a)
    /\ curpid = 1
    /\ overflow_checks \in BOOLEAN
    /\ halted = FALSE
    /\ last = NoCall
    /\ KernelIdle

run_security_check ==
    /\ ~halted
    /\ last.op = "none"
    /\ LET safe == security_check(Cur)
       IN  /\ last' = IF safe = "panic" THEN Panicked("security_check")
                      ELSE Called("security_check", 0, 0, 0, safe)
           /\ halted' = (safe = "panic")
    /\ UNCHANGED <<algos, curpid, overflow_checks, kernelVars>>

NextCheck == run_security_check

SpecCheck == InitCheck /\ [][NextCheck]_vars

\* Several processes, each of which may enable detection, with one task and
\* one kind each.
InitProc ==
    /\ algos = EmptyMap
    /\ curpid = 1
    /\ overflow_checks \in BOOLEAN
    /\ halted = FALSE
    /\ last = NoCall
    /\ KernelIdle

NextProc ==
    \/ enable
    \/ \E p \in Pids : disable(p)
    \/ \E p \in Pids : switch_process(p)
    \/ \E k \in ProcKinds, n \in 0..MaxUnits : add_resource(k, n)
    \/ \E t \in ProcTasks, k \in ProcKinds, n \in 1..MaxUnits : request(t, k, n)
    \/ \E t \in ProcTasks, k \in ProcKinds, n \in 1..MaxUnits : acquire(t, k, n)
    \/ \E t \in ProcTasks, k \in ProcKinds, n \in 1..MaxUnits : release(t, k, n)

SpecProc == InitProc /\ [][NextProc]_vars

(* ------------------------------- easy-fs ----------------------------- *)
\* One directory of easy-fs and the files under it (easy-fs/src/vfs.rs).
\* The directory's data is an array of DirEntry, size / DIRENT_SZ of them;
\* dir_entries is that array, slot idx of the code being dir_entries[idx+1].
\* DiskInode, DirEntry and EasyFileSystem (layout.rs, efs.rs) are not part
\* of src/: read_at and write_at are taken to read and write the slot at
\* the offset, increase_size and decrease_size_to to set the size,
\* alloc_inode to hand out the lowest unused id, initialize to set the link
\* count that links_count reads to 1, new_link to add one to it and unlink
\* to take one away.
FsNames == {"a", "b", "c"}       \* the names that files are given
MaxDirents == 4                  \* a directory grows to so many entries
MaxInodes == 2                   \* so many files are created

LinkBits == 3                    \* width that the u32 link count is scaled to
LinkMod == 2 ^ LinkBits          \* stands for 2^32

\* DirEntry::new(name, inode_id)
DirEntry_new(name, inode_id) == [name |-> name, inode_id |-> inode_id]

\* the slots whose entry is named name
SlotsNamed(entries, name) ==
    {i \in 1..Len(entries) : entries[i].name = name}

\* find_entry_inode_id_and_index: the slots are read in order and the
\* first one with the name is returned, None (NoInode) if there is none
find_entry_inode_id_and_index(entries, name) ==
    LET found == SlotsNamed(entries, name)
    IN  IF found = {} THEN [inode_id |-> NoInode, idx |-> 0]
        ELSE LET idx == MinOf(found)
             IN  [inode_id |-> entries[idx].inode_id, idx |-> idx]

\* find_inode_id, behind Inode::find: the same search, the id alone
find_inode_id(entries, name) ==
    LET found == SlotsNamed(entries, name)
    IN  IF found = {} THEN NoInode ELSE entries[MinOf(found)].inode_id

\* append_dirent: the size grows by one entry, which is written last
append_dirent(entries, name, inode_id) ==
    Append(entries, DirEntry_new(name, inode_id))

\* swap_remove_dirent: the last entry is written to slot idx and the size
\* shrinks by one entry
swap_remove_dirent(entries, idx) ==
    SubSeq([entries EXCEPT ![idx] = entries[Len(entries)]],
           1, Len(entries) - 1)

\* DiskInode::new_link on the inode
DiskInode_new_link(ls, inode_id) ==
    [ls EXCEPT ![inode_id] = (@ + 1) % LinkMod]

\* DiskInode::unlink on the inode
DiskInode_unlink(ls, inode_id) ==
    [ls EXCEPT ![inode_id] = (@ - 1) % LinkMod]

\* the call is recorded with the state it found
FsCall(op, old, new, ret) ==
    /\ fs_last' = [op |-> op, old |-> old, new |-> new, ret |-> ret]
    /\ fs_before' = [entries |-> dir_entries, links |-> links]

\* Inode::create: None when the name is taken, else a new inode is
\* allocated and initialized as a file and its entry appended
Inode_create(name) ==
    /\ ~halted
    /\ Len(dir_entries) < MaxDirents
    /\ Len(links) < MaxInodes
    /\ IF find_inode_id(dir_entries, name) # NoInode
       THEN /\ FsCall("create", "", name, NoInode)
            /\ UNCHANGED <<dir_entries, links>>
       ELSE LET new_inode_id == Len(links) + 1
            IN  /\ links' = Append(links, 1)
                /\ dir_entries' = append_dirent(dir_entries, name, new_inode_id)
                /\ FsCall("create", "", name, new_inode_id)
    /\ UNCHANGED <<halted, outsideFs>>

\* Inode::link_at: None when old_path is not found, else the inode found
\* gets a new link and an entry new_path -> inode is appended
Inode_link_at(old_path, new_path) ==
    /\ ~halted
    /\ Len(dir_entries) < MaxDirents
    /\ LET found == find_entry_inode_id_and_index(dir_entries, old_path)
       IN  IF found.inode_id = NoInode
           THEN /\ FsCall("link_at", old_path, new_path, NoInode)
                /\ UNCHANGED <<dir_entries, links>>
           ELSE /\ links' = DiskInode_new_link(links, found.inode_id)
                /\ dir_entries' =
                      append_dirent(dir_entries, new_path, found.inode_id)
                /\ FsCall("link_at", old_path, new_path, found.inode_id)
    /\ UNCHANGED <<halted, outsideFs>>

\* Inode::unlink: None when name is not found, else the inode found loses
\* a link and the entry found is removed
Inode_unlink(name) ==
    /\ ~halted
    /\ LET found == find_entry_inode_id_and_index(dir_entries, name)
       IN  IF found.inode_id = NoInode
           THEN /\ FsCall("unlink", name, "", NoInode)
                /\ UNCHANGED <<dir_entries, links>>
           ELSE /\ links' = DiskInode_unlink(links, found.inode_id)
                /\ dir_entries' = swap_remove_dirent(dir_entries, found.idx)
                /\ FsCall("unlink", name, "", found.inode_id)
    /\ UNCHANGED <<halted, outsideFs>>

\* a new, empty directory
InitFs ==
    /\ halted = FALSE
    /\ sys = NoSyscall
    /\ FsIdle
    /\ CmpIdle
    /\ StrideIdle
    /\ PrioIdle
    /\ WaitIdle
    /\ TaskIdle
    /\ RRIdle
    /\ SyscallIdle
    /\ MutexIdle
    /\ MmIdle
    /\ ForkIdle
    /\ GuardIdle
    /\ ProcIdle
    /\ TimerIdle
    /\ BankerIdle

NextFs ==
    \/ \E name \in FsNames : Inode_create(name)
    \/ \E old_path \in FsNames, new_path \in FsNames :
          Inode_link_at(old_path, new_path)
    \/ \E name \in FsNames : Inode_unlink(name)

SpecFs == InitFs /\ [][NextFs]_vars

(* ------------------------------- stride ------------------------------ *)
\* StrideImpl<T> is generic in its counter type T.  Two instances are
\* modelled: T = u8, the instance of the repository's test, with its own
\* constants, and T = usize, the kernel's StrideInner, scaled to StrideBits
\* bits with BIG_STRIDE = isize::MAX.
U8_MOD == 256
U8_BIG_STRIDE == 255
U8_BIG_STRIDE_DIV_2 == 127
USIZE_MOD == 2 ^ StrideBits
USIZE_BIG_STRIDE == 2 ^ (StrideBits - 1) - 1
USIZE_BIG_STRIDE_DIV_2 == USIZE_BIG_STRIDE \div 2

StrideTypes == {"u8", "usize"}

StrideMod(ty) == IF ty = "u8" THEN U8_MOD ELSE USIZE_MOD

\* a BIG_STRIDE not much larger than the priorities it is divided by
BIG_STRIDE_small(ty) == MaxPriority + 2

\* a BIG_STRIDE of T::MAX for every T, as the u8 instance has it
BIG_STRIDE_unsigned_max(ty) == StrideMod(ty) - 1

BIG_STRIDE(ty) == IF ty = "u8" THEN U8_BIG_STRIDE ELSE USIZE_BIG_STRIDE

BIG_STRIDE_DIV_2(ty) ==
    IF ty = "u8" THEN U8_BIG_STRIDE_DIV_2 ELSE USIZE_BIG_STRIDE_DIV_2

\* a step that advances by the priority itself, not by BIG_STRIDE / priority
StrideStep_by_priority(ty, stride, priority) ==
    IF priority = 0 \/ priority >= StrideMod(ty)
    THEN [stride |-> stride, panic |-> TRUE]
    ELSE [stride |-> (stride + priority) % StrideMod(ty), panic |-> FALSE]

\* StrideImpl::step: priority.0.try_into().unwrap() panics when the priority
\* does not fit T, the division panics on a zero priority, and the addition
\* is Wrapping
StrideStep(ty, stride, priority) ==
    IF priority = 0 \/ priority >= StrideMod(ty)
    THEN [stride |-> stride, panic |-> TRUE]
    ELSE [stride |-> (stride + BIG_STRIDE(ty) \div priority) % StrideMod(ty),
          panic |-> FALSE]

Reverse(o) == IF o = "Less" THEN "Greater" ELSE IF o = "Greater" THEN "Less" ELSE o

\* the closure cmp of Ord::cmp, called with min < max
\* a failing assert!(min < max) panics
StrideCmpWindow(ty, min, max) ==
    IF ~(min < max) THEN "panic"
    ELSE IF max - min <= BIG_STRIDE_DIV_2(ty) THEN "Less" ELSE "Greater"

\* an ordering of the raw counter values, blind to wraparound
StrideCmp_raw(ty, a, b) ==
    IF a < b THEN "Less" ELSE IF a = b THEN "Equal" ELSE "Greater"

\* a cmp that forgets to reverse the closure's answer when self is the larger
StrideCmp_unreversed(ty, a, b) ==
    IF a < b THEN StrideCmpWindow(ty, a, b)
    ELSE IF a = b THEN "Equal"
    ELSE StrideCmpWindow(ty, b, a)

\* Ord::cmp for StrideImpl<T>
StrideCmp(ty, a, b) ==
    IF a < b THEN StrideCmpWindow(ty, a, b)
    ELSE IF a = b THEN "Equal"
    ELSE Reverse(StrideCmpWindow(ty, b, a))

\* the ordering of the keys (t.stride, t.id): tuples compare field by field
KeyCmp(ty, ts, i, j) ==
    LET o == StrideCmp(ty, ts[i].stride, ts[j].stride)
    IN  IF o # "Equal" THEN o
        ELSE IF i < j THEN "Less" ELSE IF i = j THEN "Equal" ELSE "Greater"

\* Iterator::min_by_key over the ids from..n-1, best being the least so far:
\* the fold keeps the element it has unless it compares Greater than the next
RECURSIVE MinByStrideFrom(_, _, _, _)
MinByStrideFrom(ty, ts, best, from) ==
    IF from \notin DOMAIN ts THEN best
    ELSE MinByStrideFrom(ty, ts,
                         IF KeyCmp(ty, ts, best, from) = "Greater" THEN from ELSE best,
                         from + 1)

\* tasks.iter().min_by_key(|t| (t.stride, t.id))
MinByStride(ty, ts) == MinByStrideFrom(ty, ts, 0, 1)

\* tasks.iter().min_by_key(|t| (t.real_stride, t.id)), on unbounded integers
MinByRealStride(ts) ==
    CHOOSE i \in DOMAIN ts :
        \A j \in DOMAIN ts :
            \/ ts[i].real_stride < ts[j].real_stride
            \/ ts[i].real_stride = ts[j].real_stride /\ i <= j

MaxRealStride(ts) ==
    CHOOSE m \in {ts[i].real_stride : i \in DOMAIN ts} :
        \A i \in DOMAIN ts : ts[i].real_stride <= m

\* Task::new
StrideTask(priority) ==
    [priority |-> priority, stride |-> StrideNew, real_stride |-> 0]

\* the tasks of test_stride: (0..=8).map(|i| Task::new(i, 2 + i))
TestStrideTasks == [i \in 0..8 |-> StrideTask(2 + i)]

\* test_stride builds its tasks and runs until the reference counter of one
\* of them passes the limit (u32::MAX in the test); besides the nine tasks
\* of the test, every assignment of priorities to a few tasks is run
InitStride ==
    /\ stride_ty \in StrideTypes
    /\ \/ stride_tasks = TestStrideTasks
       \/ \E n \in 2..MaxStrideTasks :
             \E pr \in [0..(n - 1) -> 2..MaxPriority] :
                 stride_tasks = [i \in 0..(n - 1) |-> StrideTask(pr[i])]
    /\ halted = FALSE
    /\ sys = NoSyscall
    /\ BankerIdle
    /\ PrioIdle
    /\ WaitIdle
    /\ TaskIdle
    /\ FsIdle
    /\ CmpIdle
    /\ RRIdle
    /\ SyscallIdle
    /\ MutexIdle
    /\ MmIdle
    /\ ForkIdle
    /\ GuardIdle
    /\ ProcIdle
    /\ TimerIdle

\* one turn of the loop of test_stride: select, assert, step the selected
pick_and_step ==
    /\ ~halted
    /\ MaxRealStride(stride_tasks) < RealStrideLimit
    /\ LET id == MinByStride(stride_ty, stride_tasks)
           id_expect == MinByRealStride(stride_tasks)
           t == stride_tasks[id]
           out == StrideStep(stride_ty, t.stride, t.priority)
       IN  IF id # id_expect \/ out.panic
           THEN /\ halted' = TRUE
                /\ UNCHANGED stride_tasks
           ELSE /\ halted' = FALSE
                /\ stride_tasks' =
                      [stride_tasks EXCEPT ![id] =
                          [priority |-> t.priority,
                           stride |-> out.stride,
                           real_stride |-> t.real_stride
                                           + BIG_STRIDE(stride_ty) \div t.priority]]
    /\ UNCHANGED <<stride_ty, outsideStride>>

NextStride == pick_and_step

SpecStride == InitStride /\ [][NextStride]_vars

\* every value of the counter type
StrideValues(ty) == 0..(StrideMod(ty) - 1)

\* Ord::cmp applied to every pair of strides, in both orders: a.cmp(b),
\* then b.cmp(a)
InitCmp ==
    /\ stride_ty \in StrideTypes
    /\ stride_tasks = EmptyMap
    /\ cmp_args \in StrideValues(stride_ty) \X StrideValues(stride_ty)
    /\ cmp_out = <<>>
    /\ halted = FALSE
    /\ sys = NoSyscall
    /\ PrioIdle
    /\ WaitIdle
    /\ TaskIdle
    /\ FsIdle
    /\ RRIdle
    /\ SyscallIdle
    /\ MutexIdle
    /\ MmIdle
    /\ ForkIdle
    /\ GuardIdle
    /\ ProcIdle
    /\ TimerIdle
    /\ BankerIdle

\* self.cmp(other) on the pair, which is then swapped for the next call
stride_cmp ==
    /\ ~halted
    /\ Len(cmp_out) < 2
    /\ LET o == StrideCmp(stride_ty, cmp_args[1], cmp_args[2])
       IN  /\ cmp_out' = Append(cmp_out, o)
           /\ halted' = (o = "panic")
    /\ cmp_args' = <<cmp_args[2], cmp_args[1]>>
    /\ UNCHANGED outsideCmp

NextCmp == stride_cmp

SpecCmp == InitCmp /\ [][NextCmp]_vars


(* --------------------------- sys_set_priority ------------------------- *)
\* the arguments tried: the ends of isize, the values around 2 and around
\* the largest u32, and every priority that fits u32
PriInputs == {IsizeMin, IsizeMax} \cup ((0 - 2) .. (PriorityInnerMax + 2))

\* sys_set_priority
sys_set_priority(pri) ==
    /\ ~halted
    /\ LET r == PriorityTryFrom(pri)
       IN  /\ halted' = (r.res = "panic")
           /\ task_priority' = IF r.res = "Ok" THEN r.priority ELSE task_priority
           /\ sys' = [op |-> "sys_set_priority", arg |-> pri,
                      ret |-> IF r.res = "Ok" THEN pri
                              ELSE IF r.res = "Err" THEN 0 - 1 ELSE 0]
    /\ UNCHANGED <<task_stride, outsidePrio>>

\* the current task is dispatched: its stride steps by its priority
task_step ==
    /\ ~halted
    /\ LET out == StrideStep("usize", task_stride, task_priority)
       IN  /\ halted' = out.panic
           /\ task_stride' = out.stride
    /\ UNCHANGED <<task_priority, sys, outsidePrio>>

InitPrio ==
    /\ halted = FALSE
    /\ sys = NoSyscall
    /\ PrioIdle
    /\ StrideIdle
    /\ WaitIdle
    /\ TaskIdle
    /\ FsIdle
    /\ CmpIdle
    /\ RRIdle
    /\ SyscallIdle
    /\ MutexIdle
    /\ MmIdle
    /\ ForkIdle
    /\ GuardIdle
    /\ ProcIdle
    /\ TimerIdle
    /\ BankerIdle

NextPrio ==
    \/ \E pri \in PriInputs : sys_set_priority(pri)
    \/ task_step

SpecPrio == InitPrio /\ [][NextPrio]_vars

(* ------------------------------ sys_waitpid --------------------------- *)
\* A child is [pid, zombie, exit_code, strong_count]; strong_count is the
\* number of Arc references to its control block.
ChildPids == 1..(MaxChildren + 1)
ExitCodes == {0, 7}
A0Values == {0, 7}               \* what the caller of fork has in a0
WaitInputs == {0 - 2, 0 - 1} \cup (0..(MaxChildren + 2))

\* pid as usize: a negative isize becomes a large usize
AsUsize(pid) == IF pid < 0 THEN pid + USIZE_MOD ELSE pid

\* pid == -1 || pid as usize == p.getpid()
WaitMatches(pid, p) == pid = 0 - 1 \/ AsUsize(pid) = p.pid

RemoveAt(seq, idx) ==
    [i \in 1..(Len(seq) - 1) |-> IF i < idx THEN seq[i] ELSE seq[i + 1]]

\* what sys_waitpid does with the children list ch: the value returned, the
\* list left, and the exit code written, if one is
WaitOutcome(ret, ch, wrote, code, panic) ==
    [ret |-> ret, children |-> ch, wrote |-> wrote, code |-> code, panic |-> panic]

\* a sys_waitpid without the first test: no matching child is not told
\* apart from no matching zombie
Waitpid_no_match_test(ch, pid) ==
    LET found == {i \in 1..Len(ch) : ch[i].zombie /\ WaitMatches(pid, ch[i])}
    IN  IF found # {}
        THEN LET idx == MinOf(found)
             IN  WaitOutcome(ch[idx].pid, RemoveAt(ch, idx), TRUE,
                             ch[idx].exit_code, ch[idx].strong_count # 1)
        ELSE WaitOutcome(0 - 2, ch, FALSE, 0, FALSE)

\* a sys_waitpid that takes the last matching zombie, not the first
Waitpid_last_zombie(ch, pid) ==
    LET found == {i \in 1..Len(ch) : ch[i].zombie /\ WaitMatches(pid, ch[i])}
    IN  IF \A i \in 1..Len(ch) : ~WaitMatches(pid, ch[i])
        THEN WaitOutcome(0 - 1, ch, FALSE, 0, FALSE)
        ELSE IF found # {}
        THEN LET idx == CHOOSE i \in found : \A j \in found : j <= i
             IN  WaitOutcome(ch[idx].pid, RemoveAt(ch, idx), TRUE,
                             ch[idx].exit_code, ch[idx].strong_count # 1)
        ELSE WaitOutcome(0 - 2, ch, FALSE, 0, FALSE)

\* a sys_waitpid that leaves the reaped child in the list
Waitpid_keeps_child(ch, pid) ==
    LET found == {i \in 1..Len(ch) : ch[i].zombie /\ WaitMatches(pid, ch[i])}
    IN  IF \A i \in 1..Len(ch) : ~WaitMatches(pid, ch[i])
        THEN WaitOutcome(0 - 1, ch, FALSE, 0, FALSE)
        ELSE IF found # {}
        THEN LET idx == MinOf(found)
             IN  WaitOutcome(ch[idx].pid, ch, TRUE, ch[idx].exit_code, FALSE)
        ELSE WaitOutcome(0 - 2, ch, FALSE, 0, FALSE)

\* sys_waitpid on the children list ch: -1 when no child matches; else the
\* first matching zombie is removed, its strong count asserted to be 1, its
\* exit code written and its pid returned; else -2
Waitpid(ch, pid) ==
    LET found == {i \in 1..Len(ch) : ch[i].zombie /\ WaitMatches(pid, ch[i])}
    IN  IF \A i \in 1..Len(ch) : ~WaitMatches(pid, ch[i])
        THEN WaitOutcome(0 - 1, ch, FALSE, 0, FALSE)
        ELSE IF found # {}
        THEN LET idx == MinOf(found)
             IN  WaitOutcome(ch[idx].pid, RemoveAt(ch, idx), TRUE,
                             ch[idx].exit_code, ch[idx].strong_count # 1)
        ELSE WaitOutcome(0 - 2, ch, FALSE, 0, FALSE)

sys_waitpid(pid) ==
    /\ ~halted
    /\ LET out == Waitpid(children, pid)
       IN  /\ children' = out.children
           /\ halted' = out.panic
           /\ exit_code_out' =
                 IF out.wrote /\ ~out.panic
                 THEN [value |-> out.code, written |-> TRUE]
                 ELSE [value |-> exit_code_out.value, written |-> FALSE]
           /\ sys' = [op |-> "sys_waitpid", arg |-> pid,
                      ret |-> IF out.panic THEN 0 ELSE out.ret]
    /\ UNCHANGED <<ready_queue, trap_cx, outsideWait>>

\* the pid of the current process
ParentPid == 0

\* TaskControlBlock::fork for the trap context: the child's is a copy of the
\* parent's
fork_trap_cx(cx, new_pid) ==
    [p \in DOMAIN cx \cup {new_pid} |->
        IF p = new_pid THEN cx[ParentPid] ELSE cx[p]]

\* a sys_fork that puts the 0 in the caller's trap context
sys_fork_parent_a0(new_pid) ==
    /\ ~halted
    /\ Len(children) < MaxChildren
    /\ \A i \in 1..Len(children) : children[i].pid # new_pid
    /\ children' = Append(children,
                          [pid |-> new_pid, zombie |-> FALSE, exit_code |-> 0,
                           strong_count |-> 2])
    /\ trap_cx' = [fork_trap_cx(trap_cx, new_pid) EXCEPT ![ParentPid].x10 = 0]
    /\ ready_queue' = Append(ready_queue, new_pid)
    /\ sys' = [op |-> "sys_fork", arg |-> 0, ret |-> new_pid]
    /\ UNCHANGED <<halted, exit_code_out, outsideWait>>

\* sys_fork: the new process gets a pid that no process holds, is appended
\* to the caller's children and is referenced once more by the ready queue;
\* x[10] of its trap context is set to 0, add_task puts it at the back of
\* the ready queue and its pid is returned
sys_fork(new_pid) ==
    /\ ~halted
    /\ Len(children) < MaxChildren
    /\ \A i \in 1..Len(children) : children[i].pid # new_pid
    /\ children' = Append(children,
                          [pid |-> new_pid, zombie |-> FALSE, exit_code |-> 0,
                           strong_count |-> 2])
    /\ trap_cx' = [fork_trap_cx(trap_cx, new_pid) EXCEPT ![new_pid].x10 = 0]
    /\ ready_queue' = Append(ready_queue, new_pid)
    /\ sys' = [op |-> "sys_fork", arg |-> 0, ret |-> new_pid]
    /\ UNCHANGED <<halted, exit_code_out, outsideWait>>

\* a child is taken out of the ready queue, runs and calls exit(code): it
\* becomes a zombie that records the code and that only its parent's
\* children list still references
child_exit(idx, code) ==
    /\ ~halted
    /\ idx \in 1..Len(children)
    /\ ~children[idx].zombie
    /\ children' = [children EXCEPT ![idx] =
                       [pid |-> children[idx].pid, zombie |-> TRUE,
                        exit_code |-> code, strong_count |-> 1]]
    /\ ready_queue' = SelectSeq(ready_queue,
                                LAMBDA p : p # children[idx].pid)
    /\ UNCHANGED <<halted, sys, exit_code_out, trap_cx, outsideWait>>

InitWait ==
    /\ halted = FALSE
    /\ sys = NoSyscall
    /\ WaitIdle
    /\ StrideIdle
    /\ PrioIdle
    /\ TaskIdle
    /\ FsIdle
    /\ CmpIdle
    /\ RRIdle
    /\ SyscallIdle
    /\ MutexIdle
    /\ MmIdle
    /\ \E a0 \in A0Values :
          trap_cx = (ParentPid :> [x10 |-> a0, x17 |-> SYSCALL_FORK])
    /\ GuardIdle
    /\ ProcIdle
    /\ TimerIdle
    /\ BankerIdle

NextWait ==
    \/ \E p \in ChildPids : sys_fork(p)
    \/ \E i \in 1..MaxChildren, c \in ExitCodes : child_exit(i, c)
    \/ \E pid \in WaitInputs : sys_waitpid(pid)

SpecWait == InitWait /\ [][NextWait]_vars

(* ------------------------------- timers ------------------------------- *)
\* The clock and the two accounting timers.  A timer holds the reading at
\* which it was started, and 0 while it is stopped.  The sums that a stop
\* adds the elapsed time to grow without bound; the state has, in
\* last_credit, the addition that the last step made to them: to which
\* sum of which task, how much, and what get_time_us read at the stop.
TimeMod == 2 ^ TimeBits          \* stands for 2^64, the range of usize

\* the panic of an arithmetic overflow in a build with overflow checks
MulOverflow == "attempt to multiply with overflow"
TimerSubOverflow == "attempt to subtract with overflow"

\* get_time_us when the time register holds t: t * MICRO_PER_SEC /
\* CLOCK_FREQ in usize; the product overflows once the register has passed
\* usize::MAX / MICRO_PER_SEC
get_time_us(t) ==
    LET product == t * MICRO_PER_SEC
    IN  IF product >= TimeMod /\ overflow_checks
        THEN [us |-> 0, panic |-> TRUE]
        ELSE [us |-> (product % TimeMod) \div CLOCK_FREQ, panic |-> FALSE]

\* by how much the time register has gone on at each of the readings that
\* one handler takes
Advances == [1..MaxReads -> {0, 1}]

\* the timers and the first-run times as a handler finds them; credit is
\* what the handler has added to a task's sum so far; msg is the
\* message of the panic the handler has run into, "" while it has not;
\* time is the time register at the handler's last reading, adv what it
\* will have gone on by at the next ones
TimerState(adv) ==
    [user |-> user_timer_us, kernel |-> kernel_timer_us,
     first |-> first_run_time_us, credit |-> NoCredit,
     msg |-> "", time |-> time, adv |-> adv]

\* time::read(): the register has gone on since the last reading
time_read(ts) ==
    LET t == ts.time + Head(ts.adv)
    IN  [ts EXCEPT !.time = IF t < TimeMod THEN t ELSE ts.time,
                   !.adv = Tail(ts.adv)]

\* user_timer_start, kernel_timer_start: read the clock, assert that the
\* timer holds 0, store the reading
timer_start(ts, which, msg) ==
    IF ts.msg # "" THEN ts
    ELSE LET rd == time_read(ts)
             now_us == get_time_us(rd.time)
         IN  IF now_us.panic THEN [rd EXCEPT !.msg = MulOverflow]
             ELSE IF rd[which] # 0 THEN [rd EXCEPT !.msg = msg]
             ELSE [rd EXCEPT ![which] = now_us.us]

\* let elapsed_us = now_us - *timer_us; *task_timer += elapsed_us;
\* *timer_us = 0: the elapsed time, a usize, goes to the sum which of task
credit_elapsed(rd, task, which, now_us) ==
    LET elapsed_us == now_us - rd[which]
    IN  IF elapsed_us < 0 /\ overflow_checks
        THEN [rd EXCEPT !.msg = TimerSubOverflow]
        ELSE [rd EXCEPT ![which] = 0,
                        !.credit = [task |-> task, which |-> which,
                                    us |-> elapsed_us % TimeMod,
                                    at |-> now_us]]

\* a stop of one of the task manager's timers with task as the current
\* task: read the clock, assert that the timer does not hold 0, add the
\* elapsed time to the task's sum, store 0
timer_stop_task(ts, task, which, msg) ==
    IF ts.msg # "" THEN ts
    ELSE LET rd == time_read(ts)
             now_us == get_time_us(rd.time)
         IN  IF now_us.panic THEN [rd EXCEPT !.msg = MulOverflow]
             ELSE IF rd[which] = 0 THEN [rd EXCEPT !.msg = msg]
             ELSE credit_elapsed(rd, task, which, now_us.us)

\* user_timer_stop, kernel_timer_stop: the task is inner.current_task
timer_stop(ts, which, msg) == timer_stop_task(ts, current_task, which, msg)

\* TaskManager::user_timer_start
user_timer_start(ts) == timer_start(ts, "user", "timer start without reset.")

\* TaskManager::user_timer_stop
user_timer_stop(ts) == timer_stop(ts, "user", "timer stop without set.")

\* TaskManager::kernel_timer_start
kernel_timer_start(ts) ==
    timer_start(ts, "kernel", "timer start without reset.")

\* TaskManager::kernel_timer_stop
kernel_timer_stop(ts) == timer_stop(ts, "kernel", "timer stop without set.")

\* TaskManager::update_task_first_run_time for the task made current: when
\* its first_run_time_us is 0, store the reading and start the user timer
update_task_first_run_time(ts, task) ==
    IF ts.msg # "" THEN ts
    ELSE IF ts.first[task] = 0
    THEN LET rd == time_read(ts)
             now_us == get_time_us(rd.time)
         IN  IF now_us.panic THEN [rd EXCEPT !.msg = MulOverflow]
             ELSE user_timer_start([rd EXCEPT !.first[task] = now_us.us])
    ELSE ts

\* the timers after a handler that did not panic
SetTimers(ts) ==
    /\ time' = ts.time
    /\ user_timer_us' = ts.user
    /\ kernel_timer_us' = ts.kernel
    /\ first_run_time_us' = ts.first
    /\ last_credit' = ts.credit

\* the messages of the timer assertions
TimerAssertions ==
    {"timer start without reset.", "timer stop without set.",
     "user timer start without reset.", "user timer stop without set.",
     "kernel timer start without reset.", "kernel timer stop without set."}

(* ------------------------------ TaskManager --------------------------- *)
\* The task manager.  task_pc is "boot" before run_first_task, "user" while
\* the current task runs in user mode, "kernel" in the trap handler once it
\* has switched the timers, "suspended" or "exited" between the two calls
\* that suspend_current_and_run_next and exit_current_and_run_next make, and
\* "return" when the trap handler is about to go back to user mode.
\* task_cx[i] says where task i continues when it is switched to: at the
\* return to user mode if it never ran, else behind the __switch of its own
\* run_next_task, called from the trap handler or from sys_yield.
\* TaskStatus
TaskStatus == {"UnInit", "Ready", "Running", "Exited"}

\* TaskManager.num_app
num_app == Cardinality(DOMAIN task_status)

\* Option::None of find_next_task
NoTask == 0 - 1

\* a find_next_task that takes the next task in the list, whatever its status
find_next_task_any == (current_task + 1) % num_app

\* a find_next_task that takes the Ready task of the lowest index
find_next_task_lowest ==
    LET ready == {i \in DOMAIN task_status : task_status[i] = "Ready"}
    IN  IF ready = {} THEN NoTask ELSE MinOf(ready)

\* find_next_task: the first Ready task among current + 1, ..., current +
\* num_app, taken modulo num_app
find_next_task ==
    LET ready == {k \in 1..num_app :
                     task_status[(current_task + k) % num_app] = "Ready"}
    IN  IF ready = {} THEN NoTask
        ELSE (current_task + MinOf(ready)) % num_app

\* a panic: the kernel halts with the message
Panic(msg) ==
    /\ halted' = TRUE
    /\ panic_msg' = msg

\* the clock goes on
tick ==
    /\ ~halted
    /\ time < TimeMod - 1
    /\ time' = time + 1
    /\ UNCHANGED <<halted, taskVars, user_timer_us, kernel_timer_us,
                   first_run_time_us, task_cx, panic_msg, dispatch_since, outsideTask>>
    /\ last_credit' = NoCredit

\* history: task j is dispatched; status is the status of every task once
\* j is Running
record_dispatch(since, j, status) ==
    [i \in (DOMAIN since) \cup {j} |->
        IF i = j
        THEN [ready |-> {t \in DOMAIN status : status[t] = "Ready"},
              seen |-> {}]
        ELSE [since[i] EXCEPT !.seen = @ \cup {j}]]

\* run_first_task: tasks[0] becomes Running, its first run time is taken
\* and it is switched to
run_first_task ==
    /\ ~halted
    /\ task_pc = "boot"
    /\ \E adv \in Advances :
       LET ts == update_task_first_run_time(TimerState(adv), current_task)
       IN  IF ts.msg = ""
           THEN /\ task_status' = [task_status EXCEPT ![0] = "Running"]
                /\ task_pc' = "user"
                /\ dispatch_since' =
                      record_dispatch(dispatch_since, 0, task_status')
                /\ SetTimers(ts)
                /\ UNCHANGED <<halted, panic_msg>>
           ELSE /\ Panic(ts.msg)
                /\ UNCHANGED <<task_status, task_pc, time, user_timer_us,
                               kernel_timer_us, first_run_time_us, last_credit,
                               dispatch_since>>
    /\ UNCHANGED <<current_task, task_cx, outsideTask>>

\* the trap handler on entry from user mode: the user timer stops and the
\* kernel timer starts
trap_enter ==
    /\ ~halted
    /\ task_pc = "user"
    /\ \E adv \in Advances :
       LET ts == kernel_timer_start(user_timer_stop(TimerState(adv)))
       IN  IF ts.msg = ""
           THEN /\ task_pc' = "kernel"
                /\ SetTimers(ts)
                /\ UNCHANGED <<halted, panic_msg>>
           ELSE /\ Panic(ts.msg)
                /\ UNCHANGED <<task_pc, time, user_timer_us, kernel_timer_us,
                               first_run_time_us, last_credit>>
    /\ UNCHANGED <<task_status, current_task, task_cx, dispatch_since, outsideTask>>

\* the trap handler before it returns to user mode: the kernel timer stops
\* and the user timer starts
trap_return ==
    /\ ~halted
    /\ task_pc = "return"
    /\ \E adv \in Advances :
       LET ts == user_timer_start(kernel_timer_stop(TimerState(adv)))
       IN  IF ts.msg = ""
           THEN /\ task_pc' = "user"
                /\ SetTimers(ts)
                /\ UNCHANGED <<halted, panic_msg>>
           ELSE /\ Panic(ts.msg)
                /\ UNCHANGED <<task_pc, time, user_timer_us, kernel_timer_us,
                               first_run_time_us, last_credit>>
    /\ UNCHANGED <<task_status, current_task, task_cx, dispatch_since, outsideTask>>

\* a suspend_current_and_run_next that does not mark the outgoing task
mark_current_suspended_skipped ==
    /\ ~halted
    /\ task_pc = "kernel"
    /\ task_pc' = "suspended"
    /\ task_cx' = [task_cx EXCEPT ![current_task] = "trap_handler"]
    /\ UNCHANGED <<halted, task_status, current_task, time, user_timer_us,
                   kernel_timer_us, first_run_time_us, panic_msg,
                   dispatch_since, outsideTask>>
    /\ last_credit' = NoCredit

\* suspend_current_and_run_next called by the trap handler (the time slice
\* is over), first half: mark_current_suspended
mark_current_suspended ==
    /\ ~halted
    /\ task_pc = "kernel"
    /\ task_status' = [task_status EXCEPT ![current_task] = "Ready"]
    /\ task_pc' = "suspended"
    /\ task_cx' = [task_cx EXCEPT ![current_task] = "trap_handler"]
    /\ UNCHANGED <<halted, current_task, time, user_timer_us,
                   kernel_timer_us, first_run_time_us, panic_msg,
                   dispatch_since, outsideTask>>
    /\ last_credit' = NoCredit

\* exit_current_and_run_next called by the trap handler (the task has
\* faulted), first half: mark_current_exited
mark_current_exited ==
    /\ ~halted
    /\ task_pc = "kernel"
    /\ task_status' = [task_status EXCEPT ![current_task] = "Exited"]
    /\ task_pc' = "exited"
    /\ task_cx' = [task_cx EXCEPT ![current_task] = "trap_handler"]
    /\ UNCHANGED <<halted, current_task, time, user_timer_us,
                   kernel_timer_us, first_run_time_us, panic_msg,
                   dispatch_since, outsideTask>>
    /\ last_credit' = NoCredit

\* the timers over run_next_task when a task was found: the kernel timer
\* stops for the outgoing task, the first run time of the incoming one is
\* taken, and behind __switch the incoming task, unless it starts at the
\* return to user mode, starts the kernel timer in its own run_next_task
run_next_task_timers(next, adv) ==
    LET ts == update_task_first_run_time(
                  kernel_timer_stop(TimerState(adv)), next)
    IN  IF task_cx[next] = TaskContext_goto_restore THEN ts
        ELSE kernel_timer_start(ts)

\* the second half of both: run_next_task marks the task found Running,
\* makes it current and switches to it, or panics when none is found
run_next_task ==
    /\ ~halted
    /\ task_pc \in {"suspended", "exited"}
    /\ LET next == find_next_task
       IN  IF next # NoTask
           THEN \E adv \in Advances :
                LET ts == run_next_task_timers(next, adv)
                IN  IF ts.msg = ""
                    THEN /\ task_status' =
                               [task_status EXCEPT ![next] = "Running"]
                         /\ current_task' = next
                         /\ dispatch_since' =
                               record_dispatch(dispatch_since, next,
                                               task_status')
                         /\ task_pc' =
                               IF task_cx[next] = TaskContext_goto_restore
                               THEN "user" ELSE "return"
                         /\ SetTimers(ts)
                         /\ UNCHANGED <<halted, panic_msg>>
                    ELSE /\ Panic(ts.msg)
                         /\ UNCHANGED <<taskVars, time, user_timer_us,
                                        kernel_timer_us, first_run_time_us, last_credit,
                                        dispatch_since>>
           ELSE /\ Panic("All applications completed!")
                /\ UNCHANGED <<taskVars, time, user_timer_us, kernel_timer_us,
                               first_run_time_us, last_credit, dispatch_since>>
    /\ UNCHANGED <<task_cx, outsideTask>>

\* either build profile; the banker is not exercised
AnyBuild ==
    /\ algos = EmptyMap
    /\ curpid = MinOf(Pids)
    /\ overflow_checks \in BOOLEAN
    /\ last = NoCall

InitTask ==
    /\ halted = FALSE
    /\ sys = NoSyscall
    /\ \E n \in 1..MaxApps :
          /\ task_status = [i \in 0..(n - 1) |-> TaskControlBlock_new]
          /\ first_run_time_us = [i \in 0..(n - 1) |-> 0]
          /\ last_credit = NoCredit
          /\ task_cx = [i \in 0..(n - 1) |-> TaskContext_goto_restore]
    /\ current_task = 0
    /\ task_pc = "boot"
    /\ time = BootTime
    /\ user_timer_us = 0
    /\ kernel_timer_us = 0
    /\ panic_msg = ""
    /\ StrideIdle
    /\ PrioIdle
    /\ WaitIdle
    /\ ProcIdle
    /\ GuardIdle
    /\ ForkIdle
    /\ MmIdle
    /\ MutexIdle
    /\ SyscallIdle
    /\ RRIdle
    /\ CmpIdle
    /\ FsIdle
    /\ AnyBuild

NextTask ==
    \/ tick
    \/ run_first_task
    \/ trap_enter
    \/ trap_return
    \/ mark_current_suspended
    \/ mark_current_exited
    \/ run_next_task

SpecTask == InitTask /\ [][NextTask]_vars

(* ------------------------------ Processor ----------------------------- *)
\* The processor and its idle control flow.  task_pc is "idle" in the loop
\* of run_tasks, and "user", "kernel" and "return" as for the task manager.
\* A task that never ran resumes at trap_return; one that was switched out
\* resumes behind the __switch of schedule.
\* TaskContext::goto_trap_return
TaskContext_goto_trap_return == "trap_return"

\* the panic of Option::unwrap on None
UnwrapNone == "called Option::unwrap() on a None value"

\* Processor::user_timer_start
Processor_user_timer_start(ts) ==
    timer_start(ts, "user", "user timer start without reset.")

\* a stop of one of the processor's timers: as timer_stop; the sum is that
\* of current.unwrap()
Processor_timer_stop(ts, which, msg) ==
    IF ts.msg # "" THEN ts
    ELSE LET rd == time_read(ts)
             now_us == get_time_us(rd.time)
         IN  IF now_us.panic THEN [rd EXCEPT !.msg = MulOverflow]
             ELSE IF processor_current = NoTask
             THEN [rd EXCEPT !.msg = UnwrapNone]
             ELSE IF rd[which] = 0 THEN [rd EXCEPT !.msg = msg]
             ELSE credit_elapsed(rd, processor_current, which, now_us.us)

\* Processor::user_timer_stop
Processor_user_timer_stop(ts) ==
    Processor_timer_stop(ts, "user", "user timer stop without set.")

\* Processor::kernel_timer_start
Processor_kernel_timer_start(ts) ==
    timer_start(ts, "kernel", "kernel timer start without reset.")

\* Processor::kernel_timer_stop
Processor_kernel_timer_stop(ts) ==
    Processor_timer_stop(ts, "kernel", "kernel timer stop without set.")

\* Processor::update_task_first_run_time for the task just made current:
\* return when its first_run_time_us is not 0, else store the reading and
\* start the user timer
Processor_update_task_first_run_time(ts, task) ==
    IF ts.msg # "" THEN ts
    ELSE IF ts.first[task] # 0 THEN ts
    ELSE LET rd == time_read(ts)
             now_us == get_time_us(rd.time)
         IN  IF now_us.panic THEN [rd EXCEPT !.msg = MulOverflow]
             ELSE Processor_user_timer_start(
                      [rd EXCEPT !.first[task] = now_us.us])

\* Processor::take_current: the kernel timer stops for the current task,
\* which is then taken out of the processor
take_current(ts) == Processor_kernel_timer_stop(ts)

\* schedule, behind its __switch: the task that was switched out is back
\* and starts the kernel timer
schedule(ts) == Processor_kernel_timer_start(ts)

\* run_tasks, when fetch_task returns nothing: the warning is logged and the
\* loop goes on
run_tasks_none ==
    /\ console < MaxWarn
    /\ console' = console + 1
    /\ UNCHANGED <<halted, panic_msg, taskVars, time, user_timer_us,
                   kernel_timer_us, first_run_time_us, task_cx,
                   processor_current, ready_queue>>
    /\ last_credit' = NoCredit

\* run_tasks, one turn of the loop: the processor must be free; the task
\* that fetch_task takes out of the ready queue becomes Running and current,
\* its first run time is taken and it is switched to
run_tasks ==
    /\ ~halted
    /\ task_pc = "idle"
    /\ IF processor_current # NoTask
       THEN /\ Panic("assertion failed: processor.current.is_none()")
            /\ UNCHANGED <<taskVars, time, user_timer_us, kernel_timer_us,
                           first_run_time_us, last_credit, task_cx, procVars>>
       ELSE IF ready_queue = <<>>
       THEN run_tasks_none
       ELSE \E k \in 1..Len(ready_queue), adv \in Advances :
               LET task == ready_queue[k]
                   fresh == task_cx[task] = TaskContext_goto_trap_return
                   ts1 == Processor_update_task_first_run_time(
                              TimerState(adv), task)
                   ts == IF fresh THEN ts1 ELSE schedule(ts1)
               IN  IF ts.msg = ""
                   THEN /\ ready_queue' = RemoveAt(ready_queue, k)
                        /\ task_status' =
                              [task_status EXCEPT ![task] = "Running"]
                        /\ processor_current' = task
                        /\ task_pc' = IF fresh THEN "user" ELSE "return"
                        /\ SetTimers(ts)
                        /\ UNCHANGED <<halted, panic_msg, current_task,
                                       task_cx, console>>
                   ELSE /\ Panic(ts.msg)
                        /\ UNCHANGED <<taskVars, time, user_timer_us,
                                       kernel_timer_us, first_run_time_us, last_credit,
                                       task_cx, procVars>>
    /\ UNCHANGED outsideProc

\* the trap handler on entry from user mode: the user timer stops and the
\* kernel timer starts
Processor_trap_enter ==
    /\ ~halted
    /\ task_pc = "user"
    /\ processor_current # NoTask
    /\ \E adv \in Advances :
       LET ts == Processor_kernel_timer_start(
                     Processor_user_timer_stop(TimerState(adv)))
       IN  IF ts.msg = ""
           THEN /\ task_pc' = "kernel"
                /\ SetTimers(ts)
                /\ UNCHANGED <<halted, panic_msg>>
           ELSE /\ Panic(ts.msg)
                /\ UNCHANGED <<task_pc, time, user_timer_us, kernel_timer_us,
                               first_run_time_us, last_credit>>
    /\ UNCHANGED <<task_status, current_task, task_cx, procVars,
                   outsideProc>>

\* the trap handler before it returns to user mode: the kernel timer stops
\* and the user timer starts
Processor_trap_return ==
    /\ ~halted
    /\ task_pc = "return"
    /\ processor_current # NoTask
    /\ \E adv \in Advances :
       LET ts == Processor_user_timer_start(
                     Processor_kernel_timer_stop(TimerState(adv)))
       IN  IF ts.msg = ""
           THEN /\ task_pc' = "user"
                /\ SetTimers(ts)
                /\ UNCHANGED <<halted, panic_msg>>
           ELSE /\ Panic(ts.msg)
                /\ UNCHANGED <<task_pc, time, user_timer_us, kernel_timer_us,
                               first_run_time_us, last_credit>>
    /\ UNCHANGED <<task_status, current_task, task_cx, procVars,
                   outsideProc>>

\* the processor's suspend_current_and_run_next: take_current_task, the task
\* becomes Ready and goes to the back of the ready queue, schedule switches
\* to the idle control flow
Processor_suspend_current_and_run_next ==
    /\ ~halted
    /\ task_pc = "kernel"
    /\ processor_current # NoTask
    /\ \E adv \in Advances :
       LET ts == take_current(TimerState(adv))
           task == processor_current
       IN  IF ts.msg = ""
           THEN /\ processor_current' = NoTask
                /\ task_status' = [task_status EXCEPT ![task] = "Ready"]
                /\ ready_queue' = Append(ready_queue, task)
                /\ task_cx' = [task_cx EXCEPT ![task] = "schedule"]
                /\ task_pc' = "idle"
                /\ SetTimers(ts)
                /\ UNCHANGED <<halted, panic_msg>>
           ELSE /\ Panic(ts.msg)
                /\ UNCHANGED <<task_status, task_pc, time, user_timer_us,
                               kernel_timer_us, first_run_time_us, last_credit, task_cx,
                               processor_current, ready_queue>>
    /\ UNCHANGED <<current_task, console, outsideProc>>

\* the processor's exit_current_and_run_next: take_current_task, the task
\* becomes a zombie, schedule switches to the idle control flow for good
Processor_exit_current_and_run_next ==
    /\ ~halted
    /\ task_pc = "kernel"
    /\ processor_current # NoTask
    /\ \E adv \in Advances :
       LET ts == take_current(TimerState(adv))
           task == processor_current
       IN  IF ts.msg = ""
           THEN /\ processor_current' = NoTask
                /\ task_status' = [task_status EXCEPT ![task] = "Zombie"]
                /\ task_cx' = [task_cx EXCEPT ![task] = "schedule"]
                /\ task_pc' = "idle"
                /\ SetTimers(ts)
                /\ UNCHANGED <<halted, panic_msg>>
           ELSE /\ Panic(ts.msg)
                /\ UNCHANGED <<task_status, task_pc, time, user_timer_us,
                               kernel_timer_us, first_run_time_us, last_credit, task_cx,
                               processor_current>>
    /\ UNCHANGED <<current_task, ready_queue, console, outsideProc>>

\* the kernel is up: the tasks created so far are Ready and queued, the
\* processor is free and the idle control flow is about to look for a task
InitProcessor ==
    /\ halted = FALSE
    /\ sys = NoSyscall
    /\ \E n \in 1..MaxApps :
          /\ task_status = [i \in 0..(n - 1) |-> TaskControlBlock_new]
          /\ first_run_time_us = [i \in 0..(n - 1) |-> 0]
          /\ last_credit = NoCredit
          /\ task_cx = [i \in 0..(n - 1) |-> TaskContext_goto_trap_return]
          /\ ready_queue = [i \in 1..n |-> i - 1]
    /\ current_task = 0
    /\ task_pc = "idle"
    /\ processor_current = NoTask
    /\ console = 0
    /\ time = BootTime
    /\ user_timer_us = 0
    /\ kernel_timer_us = 0
    /\ panic_msg = ""
    /\ StrideIdle
    /\ PrioIdle
    /\ WaitIdle
    /\ GuardIdle
    /\ ForkIdle
    /\ MmIdle
    /\ MutexIdle
    /\ SyscallIdle
    /\ RRIdle
    /\ CmpIdle
    /\ FsIdle
    /\ AnyBuild

NextProcessor ==
    \/ tick
    \/ run_tasks
    \/ Processor_trap_enter
    \/ Processor_trap_return
    \/ Processor_suspend_current_and_run_next
    \/ Processor_exit_current_and_run_next

SpecProcessor == InitProcessor /\ [][NextProcessor]_vars

(* ------------------------- exclusive-access guards -------------------- *)
\* The UPSafeCell guards along the dispatch paths.  A path is the sequence
\* of exclusive_access() calls, guard drops and __switch calls that a
\* function makes, in program order.  guards is the set of cells borrowed at
\* the moment, guard_path what is left of the path being run, guard_flow
\* the control flow that runs it ("boot", "task" or "idle"), and guard_conts
\* the paths left behind a __switch by control flows that were switched out.
\* exclusive_access() on a borrowed cell panics.
Acq(cell) == [op |-> "acquire", cell |-> cell]
Rel(cell) == [op |-> "release", cell |-> cell]
Switch == [op |-> "switch", cell |-> ""]
PanicOp == [op |-> "panic", cell |-> ""]

\* the panic of RefCell::borrow_mut on a borrowed cell
AlreadyBorrowed == "already borrowed: BorrowMutError"

\* the cells
GuardCells == {"TASK_MANAGER", "PROCESSOR", "task.inner", "ready_queue"}

\* the four timer functions of the task manager: inner is borrowed for the
\* whole function
timer_guards == <<Acq("TASK_MANAGER"), Rel("TASK_MANAGER")>>

\* TaskManager::update_task_first_run_time: inner is dropped before
\* user_timer_start is called, or at the end when the task ran before
update_task_first_run_time_guards(first) ==
    IF first
    THEN <<Acq("TASK_MANAGER"), Rel("TASK_MANAGER")>> \o timer_guards
    ELSE <<Acq("TASK_MANAGER"), Rel("TASK_MANAGER")>>

\* TaskManager::run_first_task
run_first_task_guards(first) ==
    <<Acq("TASK_MANAGER"), Rel("TASK_MANAGER")>>
    \o update_task_first_run_time_guards(first)
    \o <<Switch, PanicOp>>

\* mark_current_suspended, mark_current_exited, find_next_task: inner is
\* borrowed for the whole function
mark_guards == <<Acq("TASK_MANAGER"), Rel("TASK_MANAGER")>>

\* a run_next_task that keeps inner over __switch
run_next_task_guards_keeps_inner(found, first) ==
    mark_guards
    \o (IF found
        THEN timer_guards
             \o <<Acq("TASK_MANAGER"), Switch, Rel("TASK_MANAGER")>>
             \o timer_guards
        ELSE <<PanicOp>>)

\* TaskManager::run_next_task: find_next_task; when a task is found,
\* kernel_timer_stop, the marking under inner, drop(inner),
\* update_task_first_run_time, __switch and, back from it,
\* kernel_timer_start; else the panic
run_next_task_guards(found, first) ==
    mark_guards
    \o (IF found
        THEN timer_guards
             \o <<Acq("TASK_MANAGER"), Rel("TASK_MANAGER")>>
             \o update_task_first_run_time_guards(first)
             \o <<Switch>>
             \o timer_guards
        ELSE <<PanicOp>>)

\* suspend_current_and_run_next and exit_current_and_run_next of the task
\* manager: the marking, then run_next_task
suspend_current_and_run_next_guards(found, first) ==
    mark_guards \o run_next_task_guards(found, first)

\* Processor::update_task_first_run_time, called on the borrowed processor:
\* the task's inner is borrowed, and dropped before user_timer_start or at
\* the return
Processor_update_task_first_run_time_guards(first) ==
    <<Acq("task.inner"), Rel("task.inner")>>

\* fetch_task and add_task borrow the ready queue for the call
fetch_task_guards == <<Acq("ready_queue"), Rel("ready_queue")>>

\* run_tasks, one turn of the loop: PROCESSOR is borrowed; when a task is
\* fetched its inner is borrowed for the marking and dropped, the first run
\* time is taken, PROCESSOR is dropped and __switch is called; else the
\* guard goes at the end of the turn
run_tasks_guards(fetched, first) ==
    <<Acq("PROCESSOR")>>
    \o fetch_task_guards
    \o (IF fetched
        THEN <<Acq("task.inner"), Rel("task.inner")>>
             \o Processor_update_task_first_run_time_guards(first)
             \o <<Rel("PROCESSOR"), Switch>>
        ELSE <<Rel("PROCESSOR")>>)

\* take_current_task: PROCESSOR is borrowed for the call, and in it
\* kernel_timer_stop borrows the inner of the current task
take_current_task_guards ==
    <<Acq("PROCESSOR"), Acq("task.inner"), Rel("task.inner"),
      Rel("PROCESSOR")>>

\* schedule: PROCESSOR is borrowed for the idle context's address and
\* dropped, __switch is called and, back from it, kernel_timer_start borrows
\* PROCESSOR for the call
schedule_guards ==
    <<Acq("PROCESSOR"), Rel("PROCESSOR"), Switch,
      Acq("PROCESSOR"), Rel("PROCESSOR")>>

\* the processor's suspend_current_and_run_next and
\* exit_current_and_run_next: take_current_task, the marking under the
\* task's inner, add_task when the task stays runnable, schedule
Processor_suspend_guards(exiting) ==
    take_current_task_guards
    \o <<Acq("task.inner"), Rel("task.inner")>>
    \o (IF exiting THEN <<>> ELSE fetch_task_guards)
    \o schedule_guards

\* a function is called: its path is run from the start
GuardCall(p, flow) ==
    /\ ~halted
    /\ guard_path = <<>>
    /\ guard_flow = flow
    /\ guard_path' = p
    /\ UNCHANGED <<halted, panic_msg, guards, guard_flow, guard_conts,
                   guard_kernel, outsideGuard>>

\* the kernel calls run_first_task
call_run_first_task ==
    /\ guard_kernel = "TaskManager"
    /\ \E first \in BOOLEAN : GuardCall(run_first_task_guards(first), "boot")

\* the running task yields, is preempted or exits (task manager)
call_suspend_current_and_run_next ==
    /\ guard_kernel = "TaskManager"
    /\ \E found \in BOOLEAN, first \in BOOLEAN :
          GuardCall(suspend_current_and_run_next_guards(found, first),
                    "task")

\* the idle control flow takes a turn of the loop of run_tasks
call_run_tasks ==
    /\ guard_kernel = "Processor"
    /\ \E fetched \in BOOLEAN, first \in BOOLEAN :
          GuardCall(run_tasks_guards(fetched, first), "idle")

\* the running task yields, is preempted or exits (processor)
call_Processor_suspend ==
    /\ guard_kernel = "Processor"
    /\ \E exiting \in BOOLEAN :
          GuardCall(Processor_suspend_guards(exiting), "task")

\* __switch: what is left of the path stays behind with the control flow
\* that is switched out.  The task manager switches to a task that never
\* ran, which starts in user mode, or to one that was switched out; the
\* processor switches from a task to the idle control flow and from there
\* to a task.
guard_switch ==
    LET rest == Tail(guard_path)
        kept == IF guard_flow = "task" /\ Len(guard_conts) < MaxConts
                THEN Append(guard_conts, rest) ELSE guard_conts
    IN  IF guard_kernel = "Processor" /\ guard_flow = "task"
        THEN /\ guard_flow' = "idle"
             /\ guard_path' = <<>>
             /\ guard_conts' = kept
        ELSE /\ guard_flow' = "task"
             /\ \/ /\ guard_path' = <<>>
                   /\ guard_conts' = kept
                \/ \E k \in 1..Len(kept) :
                      /\ guard_path' = kept[k]
                      /\ guard_conts' = RemoveAt(kept, k)

\* the next step of the path
guard_step ==
    /\ ~halted
    /\ guard_path # <<>>
    /\ LET o == Head(guard_path)
       IN  CASE o.op = "acquire" ->
                  IF o.cell \in guards
                  THEN /\ Panic(AlreadyBorrowed)
                       /\ UNCHANGED <<guards, guard_path, guard_flow,
                                      guard_conts>>
                  ELSE /\ guards' = guards \cup {o.cell}
                       /\ guard_path' = Tail(guard_path)
                       /\ UNCHANGED <<halted, panic_msg, guard_flow,
                                      guard_conts>>
             [] o.op = "release" ->
                  /\ guards' = guards \ {o.cell}
                  /\ guard_path' = Tail(guard_path)
                  /\ UNCHANGED <<halted, panic_msg, guard_flow, guard_conts>>
             [] o.op = "switch" ->
                  /\ guard_switch
                  /\ UNCHANGED <<halted, panic_msg, guards>>
             [] OTHER ->
                  /\ Panic("All applications completed!")
                  /\ UNCHANGED <<guards, guard_path, guard_flow, guard_conts>>
    /\ UNCHANGED <<guard_kernel, outsideGuard>>

InitGuard ==
    /\ halted = FALSE
    /\ sys = NoSyscall
    /\ guards = {}
    /\ guard_path = <<>>
    /\ guard_conts = <<>>
    /\ \/ guard_kernel = "TaskManager" /\ guard_flow = "boot"
       \/ guard_kernel = "Processor" /\ guard_flow = "idle"
    /\ StrideIdle
    /\ PrioIdle
    /\ WaitIdle
    /\ TaskIdle
    /\ FsIdle
    /\ CmpIdle
    /\ RRIdle
    /\ SyscallIdle
    /\ MutexIdle
    /\ MmIdle
    /\ ForkIdle
    /\ TimerIdle
    /\ ProcIdle
    /\ BankerIdle

NextGuard ==
    \/ call_run_first_task
    \/ call_suspend_current_and_run_next
    \/ call_run_tasks
    \/ call_Processor_suspend
    \/ guard_step

SpecGuard == InitGuard /\ [][NextGuard]_vars

(* --------------------------- sys_mmap, sys_munmap --------------------- *)
\* PAGE_SIZE
PAGE_SIZE == 4096

\* PROT_MASK of sys_mmap
PROT_MASK == 7

\* the addresses, lengths and protection bits that are passed
MmapAddrs == {0, 1, PAGE_SIZE - 1, PAGE_SIZE, PAGE_SIZE + 1, 2 * PAGE_SIZE}
MmapLens == {0, 1, PAGE_SIZE}
MmapProts == 0..(2 * PROT_MASK + 1 + MaxProtExtra)

\* prot & PROT_MASK, PROT_MASK being 2^k - 1
ProtLow(prot) == prot % (PROT_MASK + 1)

\* prot & !PROT_MASK
ProtHigh(prot) == prot - ProtLow(prot)

\* TaskManager::mmap and the function mmap in front of it: todo!()
mmap(addr, len, prot) ==
    [ret |-> 0, panic |-> TRUE, msg |-> "not yet implemented"]

\* TaskManager::munmap and the function munmap in front of it: todo!()
munmap(addr, len) ==
    [ret |-> 0, panic |-> TRUE, msg |-> "not yet implemented"]

\* sys_mmap: with an aligned addr, no bit of prot outside PROT_MASK and some
\* bit of prot inside it, the result of mmap; else -1
sys_mmap(addr, len, prot) ==
    /\ ~halted
    /\ mm_call' = [addr |-> addr, len |-> len, prot |-> prot]
    /\ LET addr_aligned == addr % PAGE_SIZE = 0
           valid_prot == ProtHigh(prot) = 0
           prot_none == ProtLow(prot) = 0
           out == mmap(addr, len, prot)
       IN  IF addr_aligned /\ valid_prot /\ ~prot_none
           THEN /\ halted' = out.panic
                /\ panic_msg' = IF out.panic THEN out.msg ELSE panic_msg
                /\ sys' = [op |-> "sys_mmap", arg |-> addr, ret |-> out.ret]
           ELSE /\ sys' = [op |-> "sys_mmap", arg |-> addr, ret |-> 0 - 1]
                /\ UNCHANGED <<halted, panic_msg>>
    /\ UNCHANGED <<mappings, outsideMm>>

\* sys_munmap: with an aligned addr the result of munmap; else -1
sys_munmap(addr, len) ==
    /\ ~halted
    /\ mm_call' = [addr |-> addr, len |-> len, prot |-> 0]
    /\ LET out == munmap(addr, len)
       IN  IF addr % PAGE_SIZE = 0
           THEN /\ halted' = out.panic
                /\ panic_msg' = IF out.panic THEN out.msg ELSE panic_msg
                /\ sys' = [op |-> "sys_munmap", arg |-> addr, ret |-> out.ret]
           ELSE /\ sys' = [op |-> "sys_munmap", arg |-> addr, ret |-> 0 - 1]
                /\ UNCHANGED <<halted, panic_msg>>
    /\ UNCHANGED <<mappings, outsideMm>>

InitMm ==
    /\ halted = FALSE
    /\ sys = NoSyscall
    /\ MmIdle
    /\ StrideIdle
    /\ PrioIdle
    /\ WaitIdle
    /\ TaskIdle
    /\ FsIdle
    /\ CmpIdle
    /\ RRIdle
    /\ SyscallIdle
    /\ MutexIdle
    /\ TimerIdle
    /\ ProcIdle
    /\ GuardIdle
    /\ ForkIdle
    /\ BankerIdle

NextMm ==
    \/ \E addr \in MmapAddrs, len \in MmapLens, prot \in MmapProts :
          sys_mmap(addr, len, prot)
    \/ \E addr \in MmapAddrs, len \in MmapLens : sys_munmap(addr, len)

SpecMm == InitMm /\ [][NextMm]_vars

(* ------------------------------ MutexBlocking ------------------------- *)
\* the scheduler called by a task that gave up the processor: some task of
\* the ready queue is fetched and runs; with none ready the processor idles
mutex_schedule(status, queue) ==
    IF queue = <<>>
    THEN /\ processor_current' = 0 - 1
         /\ ready_queue' = queue
         /\ task_status' = status
    ELSE \E k \in 1..Len(queue) :
            /\ processor_current' = queue[k]
            /\ ready_queue' = SubSeq(queue, 1, k - 1)
                                \o SubSeq(queue, k + 1, Len(queue))
            /\ task_status' = [status EXCEPT ![queue[k]] = "Running"]

\* a release that wakes the waiter that blocked last
MutexBlocking_unlock_last ==
    /\ ~halted
    /\ processor_current # 0 - 1
    /\ mutex_locked
    /\ IF mutex_wait_queue # <<>>
       THEN LET n == Len(mutex_wait_queue)
                waking_task == mutex_wait_queue[n]
            IN  /\ mutex_wait_queue' = SubSeq(mutex_wait_queue, 1, n - 1)
                /\ task_status' = [task_status EXCEPT ![waking_task] = "Ready"]
                /\ ready_queue' = Append(ready_queue, waking_task)
                /\ mutex_woken' = Append(mutex_woken, waking_task)
                /\ UNCHANGED mutex_locked
       ELSE /\ mutex_locked' = FALSE
            /\ UNCHANGED <<mutex_wait_queue, task_status, ready_queue,
                           mutex_woken>>
    /\ sys' = [op |-> "mutex_unlock", arg |-> processor_current, ret |-> 0]
    /\ UNCHANGED <<processor_current, mutex_blocked, halted, outsideMutex>>

\* MutexBlocking::lock (acquire): a free mutex is taken at once; else the
\* calling task becomes Blocked, is appended to the wait queue and the
\* scheduler runs something else
MutexBlocking_lock ==
    /\ ~halted
    /\ processor_current # 0 - 1
    /\ IF mutex_locked
       THEN /\ Len(mutex_blocked) < MaxBlocks
            /\ mutex_wait_queue' = Append(mutex_wait_queue, processor_current)
            /\ mutex_blocked' = Append(mutex_blocked, processor_current)
            /\ mutex_schedule(
                  [task_status EXCEPT ![processor_current] = "Blocked"],
                  ready_queue)
            /\ UNCHANGED mutex_locked
       ELSE /\ mutex_locked' = TRUE
            /\ UNCHANGED <<mutex_wait_queue, mutex_blocked, task_status,
                           processor_current, ready_queue>>
    /\ sys' = [op |-> "mutex_lock", arg |-> processor_current, ret |-> 0]
    /\ UNCHANGED <<mutex_woken, halted, outsideMutex>>

\* MutexBlocking::unlock (release): the mutex is handed to the head of the
\* wait queue, which becomes Ready; with no waiter the mutex is free
MutexBlocking_unlock ==
    /\ ~halted
    /\ processor_current # 0 - 1
    /\ mutex_locked
    /\ IF mutex_wait_queue # <<>>
       THEN LET waking_task == Head(mutex_wait_queue)
            IN  /\ mutex_wait_queue' = Tail(mutex_wait_queue)
                /\ task_status' = [task_status EXCEPT ![waking_task] = "Ready"]
                /\ ready_queue' = Append(ready_queue, waking_task)
                /\ mutex_woken' = Append(mutex_woken, waking_task)
                /\ UNCHANGED mutex_locked
       ELSE /\ mutex_locked' = FALSE
            /\ UNCHANGED <<mutex_wait_queue, task_status, ready_queue,
                           mutex_woken>>
    /\ sys' = [op |-> "mutex_unlock", arg |-> processor_current, ret |-> 0]
    /\ UNCHANGED <<processor_current, mutex_blocked, halted, outsideMutex>>

\* sys_yield of the running task: it is Ready and queued again, and the
\* scheduler runs a ready task
mutex_yield ==
    /\ ~halted
    /\ processor_current # 0 - 1
    /\ mutex_schedule([task_status EXCEPT ![processor_current] = "Ready"],
                      Append(ready_queue, processor_current))
    /\ sys' = [op |-> "yield", arg |-> processor_current, ret |-> 0]
    /\ UNCHANGED <<mutexVars, halted, outsideMutex>>

InitMutex ==
    /\ halted = FALSE
    /\ sys = NoSyscall
    /\ \E n \in 1..MaxApps :
          /\ task_status = [i \in 0..(n - 1) |->
                               IF i = 0 THEN "Running" ELSE TaskControlBlock_new]
          /\ ready_queue = [i \in 1..(n - 1) |-> i]
    /\ processor_current = 0
    /\ current_task = 0
    /\ task_pc = "boot"
    /\ console = 0
    /\ MutexIdle
    /\ MmIdle
    /\ StrideIdle
    /\ PrioIdle
    /\ WaitIdle
    /\ TimerIdle
    /\ GuardIdle
    /\ ForkIdle
    /\ SyscallIdle
    /\ RRIdle
    /\ CmpIdle
    /\ FsIdle
    /\ BankerIdle

NextMutex ==
    \/ MutexBlocking_lock
    \/ MutexBlocking_unlock
    \/ mutex_yield

SpecMutex == InitMutex /\ [][NextMutex]_vars

(* ------------------------- syscall, SyscallChecker -------------------- *)
\* SYSCALL_EXIT
SYSCALL_EXIT == 93

\* SYSCALL_YIELD
SYSCALL_YIELD == 124

\* SYSCALL_GETPID
SYSCALL_GETPID == 172

\* SYSCALL_TASK_INFO
SYSCALL_TASK_INFO == 410

\* MAX_SYSCALL_NUM
MAX_SYSCALL_NUM == 500

\* the syscalls that are made
SyscallIds ==
    {SYSCALL_EXIT, SYSCALL_YIELD, SYSCALL_GETPID, SYSCALL_TASK_INFO}

\* the message of the assertion of SyscallChecker
CheckerFired == "counter: {..}"

\* the panic of now_us - first_run_time_us in a build with overflow checks
SubOverflow == "attempt to subtract with overflow"

\* handlers that switch away, among them one that only returns a value
Suspending_and_getpid == {SYSCALL_YIELD, SYSCALL_GETPID}

\* the handlers that call suspend_current_and_run_next: sys_yield
Suspending == {SYSCALL_YIELD}

\* the handlers that call exit_current_and_run_next: sys_exit
Exiting == {SYSCALL_EXIT}

\* the assertion of start and finalize: every counter but those of yield
\* and exit is 0
CheckerAssert(counter) ==
    \A id \in DOMAIN counter :
        id # SYSCALL_YIELD /\ id # SYSCALL_EXIT => counter[id] = 0

\* SyscallChecker::start: the assertion, then counter[syscall_id] += 1
SyscallChecker_start(counter, id) ==
    [ok |-> CheckerAssert(counter),
     counter |-> [counter EXCEPT ![id] = @ + 1]]

\* SyscallChecker::finalize (drop): counter[syscall_id] -= 1, then the
\* assertion
SyscallChecker_finalize(counter, id) ==
    LET after == [counter EXCEPT ![id] = @ - 1]
    IN  [ok |-> CheckerAssert(after), counter |-> after]

\* an update_syscall_times that counts for the first task
update_syscall_times_first_task(times, task, id) ==
    [times EXCEPT ![0][id] = @ + 1]

\* TaskManager::update_syscall_times for the current task
update_syscall_times(times, task, id) ==
    [times EXCEPT ![task][id] = @ + 1]

\* the calls counted so far
RECURSIVE SumCalls(_, _)
SumCalls(times, cells) ==
    IF cells = {} THEN 0
    ELSE LET c == CHOOSE x \in cells : TRUE
         IN  times[c[1]][c[2]] + SumCalls(times, cells \ {c})

TotalCalls == SumCalls(syscall_times, (DOMAIN syscall_times) \X SyscallIds)

\* syscall(syscall_id, args) up to the handler: the checker is constructed
\* and started, the call is counted
syscall_start(id) ==
    /\ ~halted
    /\ task_pc = "kernel"
    /\ in_flight[current_task] = NotInSyscall
    /\ TotalCalls < MaxCalls
    /\ LET st == SyscallChecker_start(checker_counter, id)
       IN  IF st.ok
           THEN /\ checker_counter' = st.counter
                /\ syscall_times' =
                      update_syscall_times(syscall_times, current_task, id)
                /\ times_at_entry' =
                      [times_at_entry EXCEPT
                          ![current_task] = syscall_times[current_task]]
                /\ in_flight' = [in_flight EXCEPT ![current_task] = id]
                /\ UNCHANGED <<halted, panic_msg>>
           ELSE /\ Panic(CheckerFired)
                /\ UNCHANGED <<checker_counter, syscall_times, times_at_entry,
                               in_flight>>
    /\ sys' = [op |-> "syscall", arg |-> id, ret |-> 0]
    /\ UNCHANGED <<task_info, taskVars, time, user_timer_us, kernel_timer_us,
                   first_run_time_us, task_cx, outsideSyscall>>
    /\ last_credit' = NoCredit

\* sys_task_info: the status and the counts of the current task, and the
\* time since its first run (in microseconds here, milliseconds there)
sys_task_info(rd) ==
    [task |-> current_task,
     status |-> task_status[current_task],
     syscall_times |->
        [id \in {i \in SyscallIds : i < MAX_SYSCALL_NUM} |->
            syscall_times[current_task][id]],
     elapsed |-> (get_time_us(rd.time).us
                    - first_run_time_us[current_task]) % TimeMod]

\* the rest of syscall for a handler that returns without a switch: the
\* handler (sys_getpid, sys_task_info), then the drop of the checker
syscall_finish ==
    /\ ~halted
    /\ task_pc = "kernel"
    /\ in_flight[current_task] \notin {NotInSyscall} \cup Suspending \cup Exiting
    /\ LET id == in_flight[current_task]
           fin == SyscallChecker_finalize(checker_counter, id)
       IN  \E adv \in Advances :
           LET rd == IF id = SYSCALL_TASK_INFO
                     THEN time_read(TimerState(adv)) ELSE TimerState(adv)
               now_us == get_time_us(rd.time)
               msg == IF id # SYSCALL_TASK_INFO THEN ""
                      ELSE IF now_us.panic THEN MulOverflow
                      ELSE IF /\ overflow_checks
                              /\ now_us.us < first_run_time_us[current_task]
                      THEN SubOverflow
                      ELSE ""
           IN  /\ time' = rd.time
               /\ IF msg # ""
                  THEN /\ Panic(msg)
                       /\ UNCHANGED <<checker_counter, in_flight, task_info,
                                      task_pc, sys>>
                  ELSE /\ task_info' = IF id = SYSCALL_TASK_INFO
                                       THEN sys_task_info(rd) ELSE task_info
                       /\ checker_counter' = fin.counter
                       /\ sys' = [op |-> "syscall_return", arg |-> id,
                                  ret |-> IF id = SYSCALL_GETPID
                                          THEN current_task ELSE 0]
                       /\ IF fin.ok
                          THEN /\ in_flight' = [in_flight EXCEPT
                                                   ![current_task] = NotInSyscall]
                               /\ task_pc' = "return"
                               /\ UNCHANGED <<halted, panic_msg>>
                          ELSE /\ Panic(CheckerFired)
                               /\ UNCHANGED <<in_flight, task_pc>>
    /\ UNCHANGED <<syscall_times, times_at_entry, task_status, current_task,
                   user_timer_us, kernel_timer_us, first_run_time_us, task_cx,
                   outsideSyscall>>
    /\ last_credit' = NoCredit

\* the rest of syscall for a task that is run again behind the switch of
\* its handler: sys_yield returns 0 and the checker is dropped
syscall_resume ==
    /\ ~halted
    /\ task_pc = "return"
    /\ in_flight[current_task] \in Suspending
    /\ LET id == in_flight[current_task]
           fin == SyscallChecker_finalize(checker_counter, id)
       IN  /\ checker_counter' = fin.counter
           /\ sys' = [op |-> "syscall_return", arg |-> id, ret |-> 0]
           /\ IF fin.ok
              THEN /\ in_flight' = [in_flight EXCEPT
                                       ![current_task] = NotInSyscall]
                   /\ UNCHANGED <<halted, panic_msg>>
              ELSE /\ Panic(CheckerFired)
                   /\ UNCHANGED in_flight
    /\ UNCHANGED <<syscall_times, times_at_entry, task_info, taskVars, time,
                   user_timer_us, kernel_timer_us, first_run_time_us, task_cx,
                   outsideSyscall>>
    /\ last_credit' = NoCredit

\* a build with overflow checks; the banker is not exercised
DebugBuild ==
    /\ algos = EmptyMap
    /\ curpid = MinOf(Pids)
    /\ overflow_checks = TRUE
    /\ last = NoCall

InitSyscall ==
    /\ halted = FALSE
    /\ sys = NoSyscall
    /\ \E n \in 1..MaxApps :
          /\ task_status = [i \in 0..(n - 1) |-> TaskControlBlock_new]
          /\ first_run_time_us = [i \in 0..(n - 1) |-> 0]
          /\ last_credit = NoCredit
          /\ task_cx = [i \in 0..(n - 1) |-> TaskContext_goto_restore]
          /\ in_flight = [i \in 0..(n - 1) |-> NotInSyscall]
          /\ syscall_times = [i \in 0..(n - 1) |-> [id \in SyscallIds |-> 0]]
          /\ times_at_entry = [i \in 0..(n - 1) |-> [id \in SyscallIds |-> 0]]
    /\ checker_counter = [id \in SyscallIds |-> 0]
    /\ task_info = NoTaskInfo
    /\ current_task = 0
    /\ task_pc = "boot"
    /\ time = BootTime
    /\ user_timer_us = 0
    /\ kernel_timer_us = 0
    /\ panic_msg = ""
    /\ StrideIdle
    /\ PrioIdle
    /\ WaitIdle
    /\ ProcIdle
    /\ GuardIdle
    /\ ForkIdle
    /\ MmIdle
    /\ MutexIdle
    /\ RRIdle
    /\ CmpIdle
    /\ FsIdle
    /\ DebugBuild

\* the trap handler takes a syscall from entry to return, or suspends the
\* task at the end of its time slice, or exits a task that has faulted;
\* sys_yield and sys_exit go on in suspend_current_and_run_next and
\* exit_current_and_run_next
NextSyscall ==
    \/ run_first_task
    \/ trap_enter
    \/ \E id \in SyscallIds : syscall_start(id)
    \/ syscall_finish
    \/ in_flight[current_task] \in {NotInSyscall} \cup Suspending
          /\ mark_current_suspended
    \/ in_flight[current_task] \in {NotInSyscall} \cup Exiting
          /\ mark_current_exited
    \/ run_next_task
    \/ syscall_resume
    \/ in_flight[current_task] = NotInSyscall /\ trap_return

SpecSyscall == InitSyscall /\ [][NextSyscall]_vars

(* ------------------------------ claims -------------------------------- *)
\* Two tasks A and B
TaskA == MinOf(Tasks)
TaskB == MinOf(Tasks \ {TaskA})

\* C1: for every kind, available + the sum of all tasks' allocations is
\* conserved: request, acquire and release never change it, and
\* add_resource(kind, n) raises it by exactly n.
C1_Conservation ==
    [][(~halted' /\ last'.op \in {"add_resource", "request", "acquire", "release"})
        => \A k \in Kinds :
              Total(Cur', k) =
                  Total(Cur, k)
                  + (IF last'.op = "add_resource" /\ last'.res = k THEN last'.n ELSE 0)
      ]_vars

\* C2: a request rejected with Deadlock leaves available and every task's
\* allocation and need exactly as they were before the request.
C2_RejectedRequestLeavesState ==
    [][(last'.op = "request" /\ last'.ret = "Deadlock") => algos' = algos]_vars

\* C3: once request(task, kind, n) has returned Success and the matching
\* acquire(task, kind, n) has been applied, security_check on the resulting
\* state returns safe.
\* (Stated for the build with overflow checks, where no count ever wraps.)
C3_GrantKeepsSafe ==
    [][(/\ overflow_checks
        /\ last.op = "request" /\ last.ret = "Success"
        /\ last'.op = "acquire" /\ last'.ret = "unit"
        /\ last'.task = last.task /\ last'.res = last.res /\ last'.n = last.n)
        => security_check(Cur') = "true"
      ]_vars

\* The state of the deadlock-rejection scenario: kinds 1 and 2 were added
\* with one unit each, A holds kind 1, B holds kind 2, A has requested
\* kind 2, and B needs `needB1` units of kind 1.
Scenario(a, needB1) ==
    /\ DOMAIN a.available = {1, 2}
    /\ a.available[1] = 0 /\ a.available[2] = 0
    /\ AllocOf(a, TaskA, 1) = 1 /\ NeedOf(a, TaskA, 1) = 0
    /\ AllocOf(a, TaskA, 2) = 0 /\ NeedOf(a, TaskA, 2) = 1
    /\ AllocOf(a, TaskB, 2) = 1 /\ NeedOf(a, TaskB, 2) = 0
    /\ AllocOf(a, TaskB, 1) = 0 /\ NeedOf(a, TaskB, 1) = needB1

\* C4: in the deadlock-rejection scenario the request by B for kind 1, the
\* second of the two symmetric requests, returns Deadlock: it is not granted
\* and the caller is not told to wait.
C4_SecondRequestRejected ==
    [][(/\ Scenario(Cur, 0)
        /\ last'.op = "request"
        /\ \/ last'.ret = "panic"
           \/ last'.task = TaskB /\ last'.res = 1 /\ last'.n = 1)
        => last'.ret = "Deadlock"
      ]_vars

C4_Witness ==
    /\ ~halted
    /\ last = Called("request", TaskB, 1, 1, "Deadlock")
    /\ Scenario(Cur, 1)

\* The orderings of a set of tasks
Orderings(T) ==
    {f \in [1..Cardinality(T) -> T] : \A i, j \in 1..Cardinality(T) : f[i] = f[j] => i = j}

RECURSIVE AllocBefore(_, _, _, _)
AllocBefore(a, f, i, k) ==
    IF i <= 1 THEN 0 ELSE AllocOf(a, f[i - 1], k) + AllocBefore(a, f, i - 1, k)

\* there is an ordering of all tasks in which each task's need for every kind
\* is at most available plus the allocations of the tasks before it
SafeSequenceExists(a) ==
    \E f \in Orderings(DOMAIN a.task_state) :
        \A i \in DOMAIN f : \A k \in DOMAIN a.task_state[f[i]] :
            a.task_state[f[i]][k].need <= a.available[k] + AllocBefore(a, f, i, k)

\* C5: security_check returns true exactly when a safe sequence exists, and
\* false otherwise, for every state over the bounded sets.
C5_SafeIffSequence ==
    last.op = "security_check" =>
        /\ last.ret \in {"true", "false"}
        /\ (last.ret = "true") <=> SafeSequenceExists(Cur)

\* a state only a later task unblocks: the scan has to start over to see it
C5_Witness ==
    /\ last = Called("security_check", 0, 0, 0, "true")
    /\ DOMAIN Cur.task_state = CheckTasks
    /\ TaskFits(Cur.available, Cur.task_state[1]) = "no"
    /\ TaskFits(Cur.available, Cur.task_state[2]) = "no"
    /\ TaskFits(Cur.available, Cur.task_state[3]) = "yes"

C7_WaitWhenUnavailable ==
    (last.op = "request" /\ last.ret # "panic") =>
        /\ last.n > AvailOf(Cur, last.res) => last.ret = "Wait"
        /\ last.ret = "Success" => last.n <= AvailOf(Cur, last.res)

\* C8: release(task, kind, n) of a kind that was added succeeds in every
\* state, also when the task has no entry for the kind or holds fewer than n
\* units, and after it available[kind] has grown by exactly n.
C8_ReleaseAlwaysSucceeds ==
    [][\A t \in Tasks, k \in Kinds, n \in 1..MaxUnits :
          (release(t, k, n) /\ k \in DOMAIN Cur.available) =>
              /\ last'.ret = "unit" /\ ~halted'
              /\ AvailOf(Cur', k) = AvailOf(Cur, k) + n
      ]_vars

C10_PerProcess ==
    [][last'.op \in {"add_resource", "request", "acquire", "release"} =>
          /\ DOMAIN algos' = DOMAIN algos
          /\ \A q \in DOMAIN algos : q # curpid => algos'[q] = algos[q]
          /\ curpid \notin DOMAIN algos =>
                /\ algos' = algos /\ ~halted'
                /\ last'.op = "request" <=> last'.ret = "None"
      ]_vars

\* process 2, which has not enabled detection, has just made a request while
\* process 1 holds a unit
C10_Witness ==
    /\ curpid = 2 /\ DOMAIN algos = {1}
    /\ AllocOf(algos[1], 1, 1) = 1
    /\ last = Called("request", 1, 1, 1, "None")

\* how often test_stride has selected task i so far: every selection adds
\* BIG_STRIDE / priority to its reference counter
Selections(i) ==
    stride_tasks[i].real_stride
        \div (BIG_STRIDE(stride_ty) \div stride_tasks[i].priority)

\* C11: tasks with priorities >= 2 that start at stride 0: selecting the
\* minimum by (wrapped stride, id) and stepping it selects, at every step,
\* the task that the minimum by (unbounded reference stride, id) selects,
\* also after the wrapped counters have overflowed.
C11_SameSelection ==
    MinByStride(stride_ty, stride_tasks) = MinByRealStride(stride_tasks)

\* a counter has wrapped, and the task selected is not the one with the
\* least raw counter value
C11_Witness ==
    /\ ~halted
    /\ \E i \in DOMAIN stride_tasks :
          stride_tasks[i].real_stride >= StrideMod(stride_ty)
    /\ LET id == MinByStride(stride_ty, stride_tasks)
       IN  \E j \in DOMAIN stride_tasks :
              stride_tasks[j].stride < stride_tasks[id].stride

\* exactly two tasks, task 0 with priority 4 and task 1 with priority 8
TwoTasks_4_8 ==
    /\ DOMAIN stride_tasks = {0, 1}
    /\ stride_tasks[0].priority = 4
    /\ stride_tasks[1].priority = 8

\* C12 as stated: of two tasks with priorities 4 and 8 the priority-4 task
\* is selected about twice as often as the priority-8 task.
C12_LowerValueTwiceAsOften ==
    TwoTasks_4_8 =>
        /\ Selections(0) - 2 * Selections(1) <= 2
        /\ 2 * Selections(1) - Selections(0) <= 2

\* C12 amended: the priority-8 task is selected about twice as often as the
\* priority-4 task: at every step the two counts differ from 1 : 2 by at
\* most two selections.
C12_HigherValueTwiceAsOften ==
    TwoTasks_4_8 =>
        /\ Selections(1) - 2 * Selections(0) <= 2
        /\ 2 * Selections(0) - Selections(1) <= 2

C12_Witness ==
    /\ TwoTasks_4_8
    /\ ~halted
    /\ Selections(0) >= 5
    /\ Selections(1) >= 10

\* C13: for every priority p that Priority::try_from accepts, the stride
\* increment BIG_STRIDE / p is at least 1 and at most BIG_STRIDE / 2, step
\* does not panic, and the stride advances by that amount modulo 2^w.
C13_StepWithinHalf ==
    [][task_step =>
          LET inc == BIG_STRIDE("usize") \div task_priority
          IN  /\ ~halted'
              /\ inc >= 1
              /\ inc <= BIG_STRIDE("usize") \div 2
              /\ inc <= BIG_STRIDE_DIV_2("usize")
              /\ task_stride' = (task_stride + inc) % StrideMod("usize")]_vars

\* the task has the largest priority and its stride has wrapped in a step
C13_Witness ==
    /\ sys.op = "sys_set_priority"
    /\ task_priority = PriorityInnerMax
    /\ task_stride > 0
    /\ task_stride < BIG_STRIDE("usize") \div task_priority
    /\ ~halted

\* C14: sys_set_priority(pri) returns pri and stores it for every pri >= 2,
\* also for pri above the largest u32, and does not crash the kernel.
C14_AcceptsEveryPriority ==
    (sys.op = "sys_set_priority" /\ sys.arg >= 2) =>
        /\ ~halted
        /\ sys.ret = sys.arg
        /\ task_priority = sys.arg

\* C15: sys_set_priority(pri) with pri < 2 returns -1 and leaves the
\* priority as it was; a task that never set its priority has priority 16.
C15_RejectsBelowTwo ==
    /\ [](sys.op = "none" => task_priority = DEFAULT)
    /\ [][\A pri \in {p \in PriInputs : p < 2} :
             sys_set_priority(pri) =>
                 /\ sys'.ret = 0 - 1
                 /\ task_priority' = task_priority
                 /\ ~halted']_vars

\* a rejected call has left a priority that an earlier call had set
C15_Witness ==
    /\ sys.op = "sys_set_priority"
    /\ sys.arg < 2
    /\ sys.ret = 0 - 1
    /\ task_priority # DEFAULT
    /\ ~halted

\* the children that the argument pid of sys_waitpid matches, by position
MatchingChildren(pid) ==
    {i \in 1..Len(children) : pid = 0 - 1 \/ children[i].pid = pid}

MatchingZombies(pid) == {i \in MatchingChildren(pid) : children[i].zombie}

\* C16: sys_waitpid returns -1 exactly when the caller has no child that
\* matches pid (-1 matches any), and -2 exactly when a matching child exists
\* but no matching child is a zombie; in both cases the children list is
\* unchanged and nothing is written to the exit-code location.
C16_NoChildOrNotExited ==
    [][\A pid \in WaitInputs :
          sys_waitpid(pid) =>
              /\ sys'.ret = 0 - 1 <=> MatchingChildren(pid) = {}
              /\ sys'.ret = 0 - 2 <=>
                    (MatchingChildren(pid) # {} /\ MatchingZombies(pid) = {})
              /\ sys'.ret \in {0 - 1, 0 - 2} =>
                    /\ children' = children
                    /\ ~exit_code_out'.written
                    /\ exit_code_out'.value = exit_code_out.value]_vars

\* a call for one pid has returned -2 although another child is a zombie,
\* and the location holds what an earlier call wrote
C16_Witness ==
    /\ sys.op = "sys_waitpid"
    /\ sys.arg >= 0
    /\ sys.ret = 0 - 2
    /\ \E i \in 1..Len(children) : children[i].zombie
    /\ exit_code_out.value = 7
    /\ ~halted

\* C17: when a matching child is a zombie, sys_waitpid removes exactly one
\* child, the first matching zombie in list order, writes its exit code and
\* returns its pid; the other children keep their order.
C17_ReapsFirstZombie ==
    [][\A pid \in WaitInputs :
          (sys_waitpid(pid) /\ MatchingZombies(pid) # {}) =>
              LET idx == MinOf(MatchingZombies(pid))
              IN  /\ ~halted'
                  /\ sys'.ret = children[idx].pid
                  /\ exit_code_out' =
                        [value |-> children[idx].exit_code, written |-> TRUE]
                  /\ children' = SubSeq(children, 1, idx - 1)
                                 \o SubSeq(children, idx + 1, Len(children))]_vars

\* the second child was reaped by a wait for any child; a running child
\* before it and a zombie after it are left, in this order
C17_Witness ==
    /\ sys.op = "sys_waitpid"
    /\ sys.arg = 0 - 1
    /\ sys.ret >= 1
    /\ exit_code_out = [value |-> 7, written |-> TRUE]
    /\ Len(children) = 2
    /\ ~children[1].zombie
    /\ children[2].zombie
    /\ ~halted

\* C18: a parent with one forked child: waitpid(-1) returns -2 while the
\* child has not exited; once the child has called exit(7), waitpid(-1)
\* returns the child's pid and writes 7; the child is reaped only once: a
\* wait for that pid then returns -1.
C18_WaitScenario ==
    /\ [][(Len(children) = 1 /\ ~children[1].zombie /\ sys_waitpid(0 - 1))
             => sys'.ret = 0 - 2]_vars
    /\ [][(/\ Len(children) = 1
           /\ children[1].zombie
           /\ children[1].exit_code = 7
           /\ sys_waitpid(0 - 1))
             => /\ sys'.ret = children[1].pid
                /\ exit_code_out' = [value |-> 7, written |-> TRUE]
                /\ children' = <<>>]_vars
    /\ [][(/\ sys.op = "sys_waitpid"
           /\ sys.ret >= 0
           /\ sys.ret \in WaitInputs
           /\ sys_waitpid(sys.ret))
             => sys'.ret = 0 - 1]_vars

\* the only child was reaped with exit code 7, and a second wait for its pid
\* has returned -1
C18_Witness ==
    /\ sys.op = "sys_waitpid"
    /\ sys.arg >= 1
    /\ sys.ret = 0 - 1
    /\ exit_code_out.value = 7
    /\ children = <<>>
    /\ ~halted

RunningTasks == {i \in DOMAIN task_status : task_status[i] = "Running"}

\* C19 as stated: once the first task is dispatched, exactly one task is
\* Running at any instant, also between the marking of the outgoing task
\* and the marking of the incoming one.
C19_ExactlyOneRunning ==
    task_pc # "boot" => Cardinality(RunningTasks) = 1

\* C19 amended: once the first task is dispatched, at most one task is
\* Running at any instant; it is the current task whenever a task runs, and
\* no task is Running between the marking of the outgoing task and the
\* marking of the incoming one.
C19_AtMostOneRunning ==
    /\ task_pc # "boot" => Cardinality(RunningTasks) <= 1
    /\ task_pc \in {"user", "kernel", "return"} =>
          RunningTasks = {current_task}
    /\ task_pc \in {"suspended", "exited"} => RunningTasks = {}

\* a task other than the first runs after another one has exited
C19_Witness ==
    /\ task_pc = "user"
    /\ current_task # 0
    /\ \E i \in DOMAIN task_status : task_status[i] = "Exited"
    /\ \E i \in DOMAIN task_status : task_status[i] = "Ready"
    /\ ~halted

\* the status changes of the spec's state machine, Zombie being the
\* TaskStatus Exited
StatusSteps ==
    {<<"UnInit", "Ready">>, <<"Ready", "Running">>, <<"Running", "Ready">>,
     <<"Running", "Blocked">>, <<"Running", "Exited">>, <<"Blocked", "Ready">>}

\* C20: a task's status changes only along Uninitialized -> Ready ->
\* Running -> {Ready, Blocked, Zombie} and Blocked -> Ready; the exited
\* state is terminal: an exited task is never Ready or Running again and
\* find_next_task never returns it.
C20_StatusMachine ==
    /\ [][\A i \in DOMAIN task_status :
             /\ task_status'[i] # task_status[i] =>
                   <<task_status[i], task_status'[i]>> \in StatusSteps
             /\ task_status[i] = "Exited" => task_status'[i] = "Exited"]_vars
    /\ [](\A i \in DOMAIN task_status :
             task_status[i] = "Exited" => find_next_task # i)

\* the task after the current one in the list has exited and another task
\* is Ready, so that find_next_task has to pass over the exited one
C20_Witness ==
    /\ task_pc = "suspended"
    /\ num_app >= 3
    /\ task_status[(current_task + 1) % num_app] = "Exited"
    /\ find_next_task # NoTask
    /\ find_next_task # current_task
    /\ ~halted

\* C21: whenever the scheduler is asked to dispatch and no task is Ready,
\* the kernel halts: run_next_task when find_next_task finds nothing, and
\* the idle loop run_tasks when fetch_task returns nothing.
C21_HaltsWhenNoneReady ==
    [][/\ (run_next_task /\ find_next_task = NoTask) => halted'
       /\ (run_tasks /\ processor_current = NoTask /\ ready_queue = <<>>)
             => halted']_vars

\* the half of C21 that is about run_next_task
C21_RunNextTaskHalts ==
    [][(run_next_task /\ find_next_task = NoTask) =>
          (halted' /\ panic_msg' = "All applications completed!")]_vars

\* the last task has exited and run_next_task has halted the kernel
C21_RunNextTaskWitness ==
    /\ halted
    /\ panic_msg = "All applications completed!"
    /\ \A i \in DOMAIN task_status : task_status[i] = "Exited"

\* the idle loop has found the ready queue empty and has gone on
C21_IdleLoopWitness ==
    /\ task_pc = "idle"
    /\ ready_queue = <<>>
    /\ console > 0
    /\ ~halted
\* C22: on every execution of the dispatch paths each accounting timer is
\* started only while stopped and stopped only while started, so that none
\* of the assertions "timer start without reset" and "timer stop without
\* set" fires.
C22_NoTimerAssertion ==
    panic_msg \notin TimerAssertions

\* as long as no reading of the clock is 0, which is so in a build with
\* overflow checks, no timer assertion fires
C22_NoTimerAssertionWhileClockRuns ==
    overflow_checks => panic_msg \notin TimerAssertions
\* a task that has not been dispatched yet: it is Ready and its saved
\* context is the initial one
NeverRan(i) ==
    /\ task_status[i] = "Ready"
    /\ task_cx[i] \in {TaskContext_goto_restore, TaskContext_goto_trap_return}

\* task i is dispatched in this step
Dispatched(i) ==
    /\ task_status[i] # "Running"
    /\ task_status'[i] = "Running"

\* C23: a task's first run time is recorded exactly once: it is written at
\* the first dispatch of the task, whatever the reading of the clock is,
\* and no later dispatch of the task changes it or starts the user timer;
\* nothing but a dispatch changes it.
C23_FirstRunRecordedOnce ==
    [][\A i \in DOMAIN task_status :
          /\ Dispatched(i) /\ ~NeverRan(i) =>
                /\ first_run_time_us'[i] = first_run_time_us[i]
                /\ user_timer_us' = user_timer_us
          /\ ~Dispatched(i) =>
                first_run_time_us'[i] = first_run_time_us[i]]_vars

\* as long as no reading of the clock is 0, which is so in a build with
\* overflow checks, the first run time is recorded once
C23_RecordedOnceWhileClockRuns ==
    [][overflow_checks => 
          \A i \in DOMAIN task_status :
             /\ Dispatched(i) /\ ~NeverRan(i) =>
                   /\ first_run_time_us'[i] = first_run_time_us[i]
                   /\ user_timer_us' = user_timer_us
             /\ ~Dispatched(i) =>
                   first_run_time_us'[i] = first_run_time_us[i]]_vars

\* C24: no exclusive-access guard (TASK_MANAGER inner, PROCESSOR, a task's
\* inner state) is held at the moment __switch is invoked, on any path
\* through run_first_task, run_next_task, run_tasks and schedule; hence the
\* control flow that runs next obtains exclusive access to those cells: no
\* exclusive_access() finds its cell borrowed.
C24_NoGuardAcrossSwitch ==
    /\ (guard_path # <<>> /\ Head(guard_path).op = "switch") => guards = {}
    /\ panic_msg # AlreadyBorrowed

\* a task is about to be switched to by run_tasks while another one is
\* switched out behind the __switch of schedule
C24_Witness ==
    /\ guard_kernel = "Processor"
    /\ guard_flow = "idle"
    /\ guard_path # <<>>
    /\ Head(guard_path).op = "switch"
    /\ guard_conts # <<>>
    /\ ~halted

\* run_next_task is about to switch while a task is switched out
C24_WitnessTaskManager ==
    /\ guard_kernel = "TaskManager"
    /\ guard_flow = "task"
    /\ guard_path # <<>>
    /\ Head(guard_path).op = "switch"
    /\ guard_conts # <<>>
    /\ ~halted
\* how often pid p is in the ready queue q
CountIn(q, p) == Cardinality({i \in 1..Len(q) : q[i] = p})

\* C25: sys_fork returns the new child's pid to the parent, sets x[10]
\* (a0) of the child's trap context to 0, the rest of it being the
\* parent's, leaves the parent's trap context as it is, and adds the child
\* to the ready queue exactly once.
C25_ForkReturnsAndQueues ==
    [][\A p \in ChildPids :
          sys_fork(p) =>
             /\ sys'.ret = p
             /\ trap_cx'[p].x10 = 0
             /\ trap_cx'[p].x17 = trap_cx[ParentPid].x17
             /\ trap_cx'[ParentPid] = trap_cx[ParentPid]
             /\ CountIn(ready_queue, p) = 0
             /\ CountIn(ready_queue', p) = 1
             /\ \A q \in ChildPids \ {p} :
                   CountIn(ready_queue', q) = CountIn(ready_queue, q)]_vars

\* a parent with a nonzero a0 has forked a second child, whose pid was that
\* of a child reaped before
C25_Witness ==
    /\ sys.op = "sys_fork"
    /\ sys.ret = 1
    /\ trap_cx[ParentPid].x10 # 0
    /\ trap_cx[1].x10 = 0
    /\ Len(ready_queue) = 2
    /\ ready_queue[2] = 1
    /\ ~halted
\* sys_mmap turns the arguments down
MmapRejects(addr, prot) ==
    \/ addr % PAGE_SIZE # 0
    \/ ProtHigh(prot) # 0
    \/ ProtLow(prot) = 0

\* C26: sys_mmap returns -1 without creating any mapping exactly when addr
\* is not page-aligned, or prot has a bit set outside the low three bits,
\* or the low three bits of prot are all zero; sys_munmap returns -1
\* without removing any mapping exactly when addr is not page-aligned;
\* otherwise each returns the result of the underlying map or unmap.
C26_MmapContract ==
    [][/\ \A addr \in MmapAddrs, len \in MmapLens, prot \in MmapProts :
            sys_mmap(addr, len, prot) =>
               IF MmapRejects(addr, prot)
               THEN ~halted' /\ sys'.ret = 0 - 1 /\ mappings' = mappings
               ELSE ~halted' /\ sys'.ret = mmap(addr, len, prot).ret
       /\ \A addr \in MmapAddrs, len \in MmapLens :
            sys_munmap(addr, len) =>
               IF addr % PAGE_SIZE # 0
               THEN ~halted' /\ sys'.ret = 0 - 1 /\ mappings' = mappings
               ELSE ~halted' /\ sys'.ret = munmap(addr, len).ret]_vars

\* the half of C26 that is about the arguments turned down: they are the
\* ones the claim names, -1 is returned and no mapping changes; all others
\* are passed on
C26_RejectsExactly ==
    [][/\ \A addr \in MmapAddrs, len \in MmapLens, prot \in MmapProts :
            sys_mmap(addr, len, prot) =>
               /\ MmapRejects(addr, prot) <=> ~halted'
               /\ ~halted' => sys'.ret = 0 - 1 /\ mappings' = mappings
       /\ \A addr \in MmapAddrs, len \in MmapLens :
            sys_munmap(addr, len) =>
               /\ addr % PAGE_SIZE # 0 <=> ~halted'
               /\ ~halted' => sys'.ret = 0 - 1 /\ mappings' = mappings]_vars
\* s is an initial part of t
IsPrefix(s, t) == Len(s) <= Len(t) /\ SubSeq(t, 1, Len(s)) = s

\* C27: mutex wait queues are strict FIFO: the tasks are woken in the order
\* in which they blocked (a waiter that blocked before another is woken
\* before it), each woken task is handed the mutex and made Ready, and the
\* wait queue holds, in the order of their blocking, exactly the waiters
\* not yet woken, all of status Blocked.
C27_MutexFIFO ==
    /\ [](/\ IsPrefix(mutex_woken, mutex_blocked)
          /\ mutex_wait_queue = SubSeq(mutex_blocked, Len(mutex_woken) + 1,
                                       Len(mutex_blocked))
          /\ \A i \in 1..Len(mutex_wait_queue) :
                task_status[mutex_wait_queue[i]] = "Blocked")
    /\ [][mutex_woken' # mutex_woken =>
            LET w == mutex_woken'[Len(mutex_woken')]
            IN  /\ task_status[w] = "Blocked"
                /\ task_status'[w] = "Ready"
                /\ mutex_locked']_vars

\* two releases in a row woke two different waiters, and a third task, which
\* blocked after them, still waits
C27_Witness ==
    /\ Len(mutex_woken) = 2
    /\ mutex_woken[1] # mutex_woken[2]
    /\ sys.op = "mutex_unlock"
    /\ Len(mutex_wait_queue) = 1
\* no syscall other than yield and exit is in flight in any task
NoneInFlight(flight) ==
    \A t \in DOMAIN flight :
        flight[t] \in {NotInSyscall, SYSCALL_YIELD, SYSCALL_EXIT}

C29_CountedBeforeHandler ==
    [][/\ \A id \in SyscallIds :
            syscall_start(id) /\ ~halted' =>
               /\ syscall_times' =
                     [syscall_times EXCEPT ![current_task][id] = @ + 1]
               /\ in_flight'[current_task] = id
               /\ task_info' = task_info
       /\ syscall_times' # syscall_times =>
               \E id \in SyscallIds : syscall_start(id)
       /\ task_info' # task_info =>
               /\ in_flight[current_task] = SYSCALL_TASK_INFO
               /\ task_info'.task = current_task
               /\ \A id \in SyscallIds :
                     task_info'.syscall_times[id] =
                        times_at_entry[current_task][id]
                           + (IF id = SYSCALL_TASK_INFO THEN 1 ELSE 0)]_vars

\* a task that yielded once has called sys_task_info for the second time,
\* and the snapshot counts both calls and the yield
C29_Witness ==
    /\ sys.op = "syscall_return"
    /\ sys.arg = SYSCALL_TASK_INFO
    /\ task_info.task = current_task
    /\ task_info.syscall_times[SYSCALL_TASK_INFO] = 2
    /\ task_info.syscall_times[SYSCALL_YIELD] = 1
\* run_next_task has switched to a task
Dispatch ==
    /\ task_pc \in {"suspended", "exited"}
    /\ task_pc' \in {"user", "return"}

\* the tasks passed over on the way from current + 1 to task i
PassedOver(i) ==
    LET k == MinOf({d \in 1..num_app : (current_task + d) % num_app = i})
    IN  {(current_task + d) % num_app : d \in 1..(k - 1)}

\* C30: the task manager dispatches round-robin: the task run_next_task
\* switches to is the first Ready task in cyclic index order from
\* current + 1, the current task coming last; it finds none exactly when no
\* task is Ready; so between two dispatches of a task, every other task that
\* was Ready at the first of them has been dispatched.
C30_RoundRobin ==
    [][/\ Dispatch =>
            /\ task_status[current_task'] = "Ready"
            /\ \A i \in PassedOver(current_task') : task_status[i] # "Ready"
            /\ current_task' \in DOMAIN dispatch_since =>
                  dispatch_since[current_task'].ready \ {current_task'}
                     \subseteq dispatch_since[current_task'].seen
       /\ run_next_task =>
            ((\A i \in DOMAIN task_status : task_status[i] # "Ready")
               <=> (halted' /\ panic_msg' = "All applications completed!"))
      ]_vars

\* task 0 is dispatched for the second time after tasks 1 and 2 have run,
\* task 1 having exited and task 2 waiting Ready
C30_Witness ==
    /\ num_app = 3
    /\ current_task = 0
    /\ task_status = (0 :> "Running" @@ 1 :> "Exited" @@ 2 :> "Ready")
    /\ task_pc = "return"
    /\ 0 \in DOMAIN dispatch_since
    /\ dispatch_since[0] = [ready |-> {2}, seen |-> {}]
    /\ 2 \in DOMAIN dispatch_since
    /\ dispatch_since[2].seen = {0}
\* the pair (task, resource) has no entry in the ledger: the kind was never
\* added, or the task never requested it
NoLedgerEntry(a, task, resource) ==
    \/ resource \notin DOMAIN a.available
    \/ task \notin DOMAIN a.task_state
    \/ resource \notin DOMAIN a.task_state[task]

\* C31: acquire or release for a (task, kind) pair that has no ledger entry
\* is fatal: the kernel halts and the ledger is not modified.
C31_MissingEntryIsFatal ==
    [][\A t \in Tasks, k \in Kinds, n \in 1..MaxUnits :
          (acquire(t, k, n) \/ release(t, k, n)) /\ NoLedgerEntry(Cur, t, k)
             => halted' /\ algos' = algos]_vars

\* an acquire has halted the kernel where a kind was added and no task had
\* requested anything
C31_Witness ==
    /\ halted
    /\ last = Panicked("acquire")
    /\ DOMAIN Cur.available # {}
    /\ DOMAIN Cur.task_state = {}
\* the entries of every pair but (task, resource) are the same in a and b
SameOtherPairs(a, b, task, resource) ==
    /\ DOMAIN b.task_state = DOMAIN a.task_state
    /\ \A t \in DOMAIN a.task_state :
          /\ DOMAIN b.task_state[t] = DOMAIN a.task_state[t]
          /\ \A k \in DOMAIN a.task_state[t] :
                (t # task \/ k # resource)
                   => b.task_state[t][k] = a.task_state[t][k]

\* the available count of every kind but resource is the same in a and b
SameOtherAvailable(a, b, resource) ==
    /\ DOMAIN b.available \ {resource} = DOMAIN a.available \ {resource}
    /\ \A k \in DOMAIN a.available \ {resource} :
          b.available[k] = a.available[k]

\* C32: acquire(task, kind, n) leaves allocation + need of the pair
\* (task, kind) unchanged and changes no other task/kind pair and no other
\* kind's available count; add_resource(kind, n) changes nothing except
\* available[kind].
C32_AcquireFrame ==
    [][/\ \A t \in Tasks, k \in Kinds, n \in 1..MaxUnits :
            acquire(t, k, n) =>
               /\ AllocOf(Cur', t, k) + NeedOf(Cur', t, k)
                     = AllocOf(Cur, t, k) + NeedOf(Cur, t, k)
               /\ SameOtherPairs(Cur, Cur', t, k)
               /\ SameOtherAvailable(Cur, Cur', k)
       /\ \A k \in Kinds, n \in 0..MaxUnits :
            add_resource(k, n) =>
               /\ Cur'.task_state = Cur.task_state
               /\ SameOtherAvailable(Cur, Cur', k)]_vars

\* C32 for the acquires whose sum allocation + n stays within usize, which
\* are all of them as long as no release has wrapped an allocation
C32_AcquireFrameWithoutWrap ==
    [][/\ \A t \in Tasks, k \in Kinds, n \in 1..MaxUnits :
            acquire(t, k, n) /\ AllocOf(Cur, t, k) + n < WordMod =>
               /\ AllocOf(Cur', t, k) + NeedOf(Cur', t, k)
                     = AllocOf(Cur, t, k) + NeedOf(Cur, t, k)
               /\ SameOtherPairs(Cur, Cur', t, k)
               /\ SameOtherAvailable(Cur, Cur', k)
       /\ \A k \in Kinds, n \in 0..MaxUnits :
            add_resource(k, n) =>
               /\ Cur'.task_state = Cur.task_state
               /\ SameOtherAvailable(Cur, Cur', k)]_vars

\* the least unbounded reference stride among the tasks
MinRealStrideOf(ts) ==
    CHOOSE m \in {ts[i].real_stride : i \in DOMAIN ts} :
        \A i \in DOMAIN ts : m <= ts[i].real_stride

\* C33: under minimum-stride scheduling from equal starting strides with
\* priorities >= 2, at every step the largest and the smallest unbounded
\* stride among the tasks differ by at most BIG_STRIDE / 2, the window
\* BIG_STRIDE_DIV_2 that Ord::cmp compares against.
C33_SpreadWithinHalf ==
    MaxRealStride(stride_tasks) - MinRealStrideOf(stride_tasks)
        <= BIG_STRIDE_DIV_2(stride_ty)

\* the counters have wrapped and the tasks are exactly BIG_STRIDE / 2 apart
C33_Witness ==
    /\ ~halted
    /\ stride_tasks # EmptyMap
    /\ MinRealStrideOf(stride_tasks) >= StrideMod(stride_ty)
    /\ MaxRealStride(stride_tasks) - MinRealStrideOf(stride_tasks)
          = BIG_STRIDE_DIV_2(stride_ty)


\* every kind that a task has an entry for is a key of available
KindsPresent(a) ==
    \A t \in DOMAIN a.task_state :
        DOMAIN a.task_state[t] \subseteq DOMAIN a.available

\* C34: security_check always terminates: every scan either marks one task
\* that was not finished as finished or returns, so it returns after at
\* most (number of tasks + 1) scans, for every state in which the kinds
\* recorded for each task are present in available; and it never modifies
\* the banker's state.
C34_CheckTerminates ==
    /\ [](last.op = "security_check" /\ KindsPresent(Cur) =>
             LET r == security_check_run(Cur)
                 done == {t \in DOMAIN r.finish : r.finish[t]}
             IN  /\ r.ret \in {"true", "false"}
                 /\ r.ret = last.ret
                 /\ r.scans = Cardinality(done) + 1
                 /\ r.scans <= Cardinality(DOMAIN Cur.task_state) + 1)
    /\ [][run_security_check => algos' = algos]_vars

\* a check of three tasks that took four scans, the first of which passed
\* over a task that a later scan found
C34_Witness ==
    /\ last.op = "security_check"
    /\ DOMAIN Cur.task_state = CheckTasks
    /\ security_check_run(Cur).scans = Cardinality(CheckTasks) + 1
    /\ TaskFits(Cur.available, Cur.task_state[1]) = "no"


\* C35: the stride ordering is antisymmetric on all values: for every pair
\* of strides a, b, a.cmp(b) is the reverse of b.cmp(a), cmp returns Equal
\* exactly when the wrapped counters are equal, and the assert!(min < max)
\* inside cmp never fires.
C35_Antisymmetric ==
    /\ ~halted
    /\ \A i \in 1..Len(cmp_out) : cmp_out[i] \in {"Less", "Equal", "Greater"}
    /\ Len(cmp_out) = 2 =>
          /\ cmp_out[2] = Reverse(cmp_out[1])
          /\ (cmp_out[1] = "Equal") <=> (cmp_args[1] = cmp_args[2])

\* the first assertion of test_stride, 125 against 255, compared both ways:
\* the smaller raw value is the greater stride
C35_Witness ==
    /\ stride_ty = "u8"
    /\ cmp_args = <<125, 255>>
    /\ cmp_out = <<"Greater", "Less">>


\* the step stopped the timer which, that held the reading start of its
\* start, for task: it added to that task's sum which, and to no other
\* sum, the time from start to a reading of the clock taken in the step
CreditsElapsed(task, which, start) ==
    /\ last_credit'.task = task
    /\ last_credit'.which = which
    /\ \E t \in time..time' : get_time_us(t).us = last_credit'.at
    /\ last_credit'.us = last_credit'.at - start

\* as CreditsElapsed, the difference being taken in usize
CreditsElapsedWrapped(task, which, start) ==
    /\ last_credit'.task = task
    /\ last_credit'.which = which
    /\ \E t \in time..time' : get_time_us(t).us = last_credit'.at
    /\ last_credit'.us = (last_credit'.at - start) % TimeMod

\* C36: every timer stop adds exactly (clock at the stop - clock at the
\* matching start) to one bucket, user or kernel, of the task that is
\* current at the stop, and changes no other task's accounting; in
\* run_next_task the kernel time accrued before the switch is credited to
\* the outgoing task, never to the incoming one.
C36_StopCreditsElapsed ==
    [][/\ trap_enter /\ ~halted' =>
            CreditsElapsed(current_task, "user", user_timer_us)
       /\ (trap_return \/ run_next_task) /\ ~halted' =>
            CreditsElapsed(current_task, "kernel", kernel_timer_us)
       /\ (tick \/ run_first_task \/ mark_current_suspended
              \/ mark_current_exited) => last_credit' = NoCredit]_vars

\* C36 with the elapsed time taken in usize, as the code subtracts: it is
\* the difference of the two readings whenever the clock has not wrapped
\* between them
C36_StopCreditsElapsedInUsize ==
    [][/\ trap_enter /\ ~halted' =>
            CreditsElapsedWrapped(current_task, "user", user_timer_us)
       /\ (trap_return \/ run_next_task) /\ ~halted' =>
            CreditsElapsedWrapped(current_task, "kernel", kernel_timer_us)
       /\ (tick \/ run_first_task \/ mark_current_suspended
              \/ mark_current_exited) => last_credit' = NoCredit]_vars

\* the same for the processor: take_current stops the kernel timer for the
\* task that it is about to take out of the processor
C36_ProcessorStopCreditsElapsedInUsize ==
    [][/\ Processor_trap_enter /\ ~halted' =>
            CreditsElapsedWrapped(processor_current, "user", user_timer_us)
       /\ (\/ Processor_trap_return
           \/ Processor_suspend_current_and_run_next
           \/ Processor_exit_current_and_run_next) /\ ~halted' =>
            CreditsElapsedWrapped(processor_current, "kernel", kernel_timer_us)
       /\ (tick \/ run_tasks) /\ ~halted' => last_credit' = NoCredit]_vars


\* C37: banker state exists for a process exactly between enable and
\* disable: enable for a process that is already enabled trips the
\* assertion and halts, any other enable creates the state with an empty
\* available and no task entries, also when a disable had discarded an
\* earlier state; disable discards the state of its process alone, and for
\* a process without state it changes nothing; no other operation creates
\* or discards the state of a process.
C37_StateBetweenEnableAndDisable ==
    [][/\ enable =>
            /\ halted' = (getpid \in DOMAIN algos)
            /\ DOMAIN algos' = DOMAIN algos \cup {getpid}
            /\ algos'[getpid] = [available |-> EmptyMap, task_state |-> EmptyMap]
            /\ \A q \in DOMAIN algos \ {getpid} : algos'[q] = algos[q]
       /\ \A p \in Pids : disable(p) =>
            /\ ~halted'
            /\ DOMAIN algos' = DOMAIN algos \ {p}
            /\ \A q \in DOMAIN algos' : algos'[q] = algos[q]
            /\ p \notin DOMAIN algos => algos' = algos
       /\ ~(enable \/ \E p \in Pids : disable(p)) =>
            DOMAIN algos' = DOMAIN algos]_vars

\* a second enable by a process that had state has halted the kernel, while
\* the other process, enabled too, has its state
C37_Witness ==
    /\ halted
    /\ last = Panicked("enable")
    /\ DOMAIN algos = Pids
    /\ \E q \in Pids \ {curpid} : algos[q] # DefaultAlgorithm

\* a process without state, another one with state, and a disable just made
C37_WitnessDisable ==
    /\ ~halted
    /\ last = Called("disable", 0, 0, 0, "unit")
    /\ curpid \notin DOMAIN algos
    /\ \E q \in Pids \ {curpid} :
          q \in DOMAIN algos /\ algos[q] # DefaultAlgorithm


\* the entries of a directory, as a set
EntrySet(entries) == {entries[i] : i \in 1..Len(entries)}

\* the link counts ls with that of inode_id changed by d
LinksChanged(ls, inode_id, d) == [ls EXCEPT ![inode_id] = @ + d]

\* what link_at(old_path, new_path) has done when old_path was found: both
\* names are now looked up to the inode that old_path named, which has one
\* more link, and the directory has one more entry; else nothing
LinkAtContract(old_path, new_path) ==
    LET inode_id == find_inode_id(dir_entries, old_path)
    IN  IF inode_id # NoInode
        THEN /\ fs_last'.ret = inode_id
             /\ find_inode_id(dir_entries', old_path) = inode_id
             /\ find_inode_id(dir_entries', new_path) = inode_id
             /\ links' = LinksChanged(links, inode_id, 1)
             /\ Len(dir_entries') = Len(dir_entries) + 1
        ELSE /\ fs_last'.ret = NoInode
             /\ dir_entries' = dir_entries
             /\ links' = links

\* C38: Inode::link_at(old, new) on a directory: when old exists,
\* afterwards looking up new and looking up old give the same inode id,
\* that inode's link count has grown by exactly one and the directory has
\* exactly one more entry; when old does not exist it returns None and the
\* directory entries and all link counts are unchanged.
C38_LinkAt ==
    [][\A old_path \in FsNames, new_path \in FsNames :
          Inode_link_at(old_path, new_path)
             => LinkAtContract(old_path, new_path)]_vars

\* C38 for a new name that no entry of the directory has yet
C38_LinkAtFreeName ==
    [][\A old_path \in FsNames, new_path \in FsNames :
          (/\ Inode_link_at(old_path, new_path)
           /\ find_inode_id(dir_entries, new_path) = NoInode)
             => LinkAtContract(old_path, new_path)]_vars

\* what unlink(name) has done when name was found: the first entry named
\* name is gone, every other entry is kept, and the inode it named has one
\* link less; else nothing
UnlinkContract(name) ==
    LET found == SlotsNamed(dir_entries, name)
    IN  IF found # {}
        THEN LET idx == MinOf(found)
                 inode_id == dir_entries[idx].inode_id
             IN  /\ fs_last'.ret = inode_id
                 /\ Len(dir_entries') = Len(dir_entries) - 1
                 /\ EntrySet(dir_entries') =
                       {dir_entries[i] : i \in (1..Len(dir_entries)) \ {idx}}
                 /\ links' = LinksChanged(links, inode_id, 0 - 1)
        ELSE /\ fs_last'.ret = NoInode
             /\ dir_entries' = dir_entries
             /\ links' = links

\* the unlink of name undoes the call before it, when that was a link_at
\* that made the name
UndoesLinkAt(name) ==
    (fs_last.op = "link_at" /\ fs_last.new = name /\ fs_last.ret # NoInode)
       => /\ EntrySet(dir_entries') = EntrySet(fs_before.entries)
          /\ links' = fs_before.links

\* C39: Inode::unlink(name) removes exactly one directory entry, the first
\* one named name, keeps every other entry (as a set; the last entry may
\* move into the freed slot), and decreases the target inode's link count
\* by exactly one; so link_at(old, new) followed by unlink(new) restores
\* the directory's entry set and the inode's link count, and unlink of a
\* missing name returns None with no change.
C39_Unlink ==
    [][\A name \in FsNames :
          Inode_unlink(name) => UnlinkContract(name) /\ UndoesLinkAt(name)]_vars

\* C39 without the round trip: what one unlink does
C39_UnlinkAlone ==
    [][\A name \in FsNames : Inode_unlink(name) => UnlinkContract(name)]_vars

\* the round trip of C39 for a link_at that gave the inode a name which no
\* entry of the directory had
C39_UndoesLinkAtFreeName ==
    [][\A name \in FsNames :
          (/\ Inode_unlink(name)
           /\ find_inode_id(fs_before.entries, name) = NoInode)
             => UndoesLinkAt(name)]_vars

====
